---- MODULE Spec2Model ----
(***************************************************************************)
(* PDA derivation and pattern-matching engine (crates/core/src/pda.rs,     *)
(* crates/core/src/types.rs), the HTTP handlers that share one analyzer    *)
(* (crates/api/src/handlers.rs, handlers_simple.rs) and the pattern        *)
(* detector and registry (crates/analyzer/src/patterns.rs).                *)
(*                                                                         *)
(* Pubkeys are their 32 raw bytes, seeds are SeedValue records, the cache  *)
(* is the HashMap (Pubkey, Vec<Vec<u8>>) -> Option<PdaInfo>.  f64          *)
(* confidences are written in hundredths (0.98 is 98).                     *)
(*                                                                         *)
(* The derivation primitive Pubkey::try_find_program_address belongs to    *)
(* the Solana SDK; it is written here from section 4.1 of the design: a    *)
(* descending bump scan over a 256-bit hash and an off-curve test.  The    *)
(* hash itself is a small mixing function with 509 digests, so that        *)
(* collisions between candidates and a seed list with no off-curve bump    *)
(* both occur.                                                             *)
(***************************************************************************)
EXTENDS Integers, Sequences, FiniteSets, TLC

VARIABLES cache, known_programs, pattern_stats, history,
          server, lock, requests,
          detector, builtin_patterns, pdas,
          search

\* The HTTP layer around the analyzer: which router serves, the RwLock of
\* AppState.pda_analyzer, and the requests in flight.
api_vars == <<server, lock, requests>>

\* The pattern detector of crates/analyzer: the PatternDetector, the
\* registry's builtin_patterns map, and the record list handed to it.
detector_vars == <<detector, builtin_patterns, pdas>>

\* search is the heuristic search of one analyze_pda call, followed a
\* derivation at a time.

vars == <<cache, known_programs, pattern_stats, history, server, lock, requests,
          detector, builtin_patterns, pdas, search>>

(***************************************************************************)
(* Bounds                                                                  *)
(***************************************************************************)
MaxCalls == 3

(***************************************************************************)
(* Option and Result                                                       *)
(***************************************************************************)
None == [some |-> FALSE]

Some(x) == [some |-> TRUE, val |-> x]

Ok(x) == [ok |-> TRUE, val |-> x]

Err(e) == [ok |-> FALSE, err |-> e]

(***************************************************************************)
(* Text and integers as bytes                                              *)
(***************************************************************************)
\* The concatenation of a sequence of sequences (of ss[lo..hi]).
RECURSIVE ConcatRange(_, _, _)
ConcatRange(ss, lo, hi) ==
    IF lo > hi THEN <<>>
    ELSE IF lo = hi THEN ss[lo]
    ELSE LET mid == (lo + hi) \div 2 IN
         ConcatRange(ss, lo, mid) \o ConcatRange(ss, mid + 1, hi)

Concat(ss) == ConcatRange(ss, 1, Len(ss))

\* The code points of the string literals the engine and its callers use.
CodePoints ==
       "state" :> <<115,116,97,116,101>>
    @@ "config" :> <<99,111,110,102,105,103>>
    @@ "authority" :> <<97,117,116,104,111,114,105,116,121>>
    @@ "vault" :> <<118,97,117,108,116>>
    @@ "pool" :> <<112,111,111,108>>
    @@ "market" :> <<109,97,114,107,101,116>>
    @@ "escrow" :> <<101,115,99,114,111,119>>
    @@ "registry" :> <<114,101,103,105,115,116,114,121>>
    @@ "governance" :> <<103,111,118,101,114,110,97,110,99,101>>
    @@ "proposal" :> <<112,114,111,112,111,115,97,108>>
    @@ "metadata" :> <<109,101,116,97,100,97,116,97>>
    @@ "treasury" :> <<116,114,101,97,115,117,114,121>>
    @@ "rewards" :> <<114,101,119,97,114,100,115>>
    @@ "staking" :> <<115,116,97,107,105,110,103>>
    @@ "lending" :> <<108,101,110,100,105,110,103>>
    @@ "farming" :> <<102,97,114,109,105,110,103>>
    @@ "oracle" :> <<111,114,97,99,108,101>>
    @@ "price_feed" :> <<112,114,105,99,101,95,102,101,101,100>>
    @@ "liquidity" :> <<108,105,113,117,105,100,105,116,121>>
    @@ "swap" :> <<115,119,97,112>>
    @@ "mint_authority" :> <<109,105,110,116,95,97,117,116,104,111,114,105,116,121>>
    @@ "global" :> <<103,108,111,98,97,108>>
    @@ "settings" :> <<115,101,116,116,105,110,103,115>>
    @@ "admin" :> <<97,100,109,105,110>>
    @@ "owner" :> <<111,119,110,101,114>>
    @@ "controller" :> <<99,111,110,116,114,111,108,108,101,114>>
    @@ "account" :> <<97,99,99,111,117,110,116>>
    @@ "user" :> <<117,115,101,114>>
    @@ "index" :> <<105,110,100,101,120>>
    @@ "item" :> <<105,116,101,109>>
    @@ "vote" :> <<118,111,116,101>>
    @@ "realm" :> <<114,101,97,108,109>>
    @@ "council" :> <<99,111,117,110,99,105,108>>
    @@ "edition" :> <<101,100,105,116,105,111,110>>
    @@ "ProgramDerivedAddress" :> <<80,114,111,103,114,97,109,68,101,114,105,118,101,100,65,100,100,114,101,115,115>>
    @@ "test" :> <<116,101,115,116>>
    @@ "cache_test" :> <<99,97,99,104,101,95,116,101,115,116>>

\* str::as_bytes: the UTF-8 encoding of a string, code point by code point.
Utf8Char(c) ==
    IF c < 128 THEN <<c>>
    ELSE IF c < 2048 THEN <<192 + (c \div 64), 128 + (c % 64)>>
    ELSE <<224 + (c \div 4096), 128 + ((c \div 64) % 64), 128 + (c % 64)>>

Utf8(cps) == Concat([i \in 1..Len(cps) |-> Utf8Char(cps[i])])

str_as_bytes(s) == Utf8(CodePoints[s])

\* uN::to_le_bytes: width bytes, least significant first.
RECURSIVE to_le_bytes(_, _)
to_le_bytes(n, width) ==
    IF width = 0 THEN <<>> ELSE <<n % 256>> \o to_le_bytes(n \div 256, width - 1)

(***************************************************************************)
(* Pubkeys                                                                 *)
(***************************************************************************)
\* The base58 literals of pda.rs, and the key texts the HTTP requests carry,
\* with the 32 bytes each decodes to.
Base58Table ==
       "TokenkegQfeZyiNwAJbNbGKPFXCWuBvf9Ss623VQ5DA" :> <<6,221,246,225,215,101,161,147,217,203,225,70,206,235,121,172,28,180,133,237,95,91,55,145,58,140,245,133,126,255,0,169>>
    @@ "ATokenGPvbdGVxr1b2hvZbsiqW5xWH25efTNsLJA8knL" :> <<140,151,37,143,78,36,137,241,187,61,16,41,20,142,13,131,11,90,19,153,218,255,16,132,4,142,123,216,219,233,248,89>>
    @@ "metaqbxxUerdq28cj1RbAWkYQm3ybzjb6a8bt518x1s" :> <<11,112,101,177,227,209,124,69,56,157,82,127,107,4,195,205,88,184,108,115,26,160,253,181,73,182,209,188,3,248,41,70>>
    @@ "9WzDXwBbmkg8ZTbNMqUxvQRAyrZzDsGYdLVL9zYtAWWM" :> <<126,140,8,135,96,191,222,29,221,207,50,193,127,32,155,130,66,238,82,170,241,49,250,205,136,208,234,44,109,11,6,242>>
    @@ "7gXKKGLQs2HpzrPTtBP7kkQ3LktDShQPE8VV9PYW9RSh" :> <<99,70,13,31,216,241,209,198,88,97,158,246,214,251,97,170,176,118,203,164,129,211,90,176,177,150,247,161,177,141,129,34>>
    @@ "5Q544fKrFoe6tsEbD7S8EmxGTJYAKtTVhAW5Q5pge4j1" :> <<65,87,176,88,15,49,197,252,228,74,98,88,45,188,249,215,142,231,89,67,160,132,163,147,179,80,54,141,34,137,147,8>>
    @@ "8szGkuLTAux9XMgZ2vtY39jVSowEcpBfFfD8hXSEqdGC" :> <<117,17,155,49,117,128,117,134,227,244,167,229,205,15,137,14,150,167,83,177,15,204,199,104,30,148,115,160,8,50,112,241>>
    @@ "EPjFWdd5AufqSSqeM2qN1xzybapC8G4wEGGkZwyTDt1v" :> <<198,250,122,243,190,219,173,58,61,101,243,106,171,201,116,49,177,187,228,194,210,246,224,228,124,166,2,3,69,47,93,97>>
    @@ "So11111111111111111111111111111111111111112" :> <<6,155,136,87,254,171,129,132,251,104,127,99,70,24,192,53,218,196,57,220,26,235,59,85,152,160,240,0,0,0,0,1>>
    @@ "Es9vMFrzaCERmJfrF4H2FYD4KCoNkY11McCe8BenwNYB" :> <<206,1,14,96,175,237,178,39,23,189,99,25,47,84,20,90,63,150,90,51,187,130,210,199,2,158,178,206,30,32,130,100>>
    @@ "8HYrKZBRZk9CgGfVv5u3r5G4W3dP2Qe2Y7rZRzMhQKkx" :> <<108,63,29,94,202,84,63,153,230,20,10,143,218,167,115,187,139,193,42,246,76,88,233,210,64,135,185,9,11,57,197,85>>
    @@ "11111111111111111111111111111112" :> <<0,0,0,0,0,0,0,0,0,0,0,0,0,0,0,0,0,0,0,0,0,0,0,0,0,0,0,0,0,0,0,1>>
    @@ "DPiH3H3c7t47BMxqTxLsuPQpEC6Kne8GA9VXbxpnZxFE" :> <<184,29,177,68,55,17,101,86,63,225,90,137,11,34,118,65,15,42,226,82,163,15,96,37,165,109,181,59,248,199,9,229>>
    @@ "CndyV3LdqHUfDLmE5naZjVN8rBZz4tqhdefbAnjHG3JR" :> <<175,33,127,194,214,71,225,38,220,199,29,50,234,196,84,239,202,73,240,29,87,162,79,17,150,153,82,222,172,228,173,146>>
    @@ "hausS13jsjafwWwGqZTUQRmWyvyxn9EQpqMwV1PBBmk" :> <<10,101,147,134,60,186,70,21,100,234,228,19,115,114,21,70,235,1,81,201,48,130,118,187,212,173,42,28,58,66,16,123>>
    @@ "9xQeWvG816bUx9EPjHmaT23yvVM2ZWbrrpZb9PusVFin" :> <<133,15,45,110,2,164,122,248,36,208,154,182,157,196,45,112,203,40,203,250,36,159,183,238,87,185,210,86,193,39,98,239>>
    @@ "675kPX9MHTjS2zt1qfr1NYHuzeLXfQM9H24wFSUt1Mp8" :> <<75,217,73,196,54,2,195,63,32,119,144,237,22,163,82,76,161,185,151,92,241,33,162,169,12,255,236,125,248,182,138,205>>
    @@ "MarBmsSgKXdrN1egZf5sqe1TMai9K1rChYNDJgjq7aD" :> <<5,69,227,101,190,242,113,173,117,53,3,103,86,93,164,13,163,54,220,28,135,155,177,84,138,122,252,197,90,169,57,30>>
    @@ "namesLPneVptA9Z5rqUDD9tMTWEJwofgaYwp8cawRkX" :> <<11,173,81,244,19,193,243,169,148,96,217,0,216,191,46,214,146,126,202,52,215,183,132,43,248,16,169,115,8,45,30,220>>
    @@ "GovER5Lthms3bLBqWub97yVrMmEogzX7xNjdXpPPCVZw" :> <<234,228,53,189,238,117,183,52,205,89,62,207,154,48,75,128,36,186,40,152,103,183,105,177,249,60,167,187,184,142,70,254>>
    @@ "LX3EUdRUBUa3TbsYXLEUdj9J3prXkWXvLYSWyYyc2Jj" :> <<5,0,0,0,0,0,0,0,0,0,0,0,0,0,0,0,0,0,0,0,0,0,0,0,0,0,0,0,0,0,0,0>>
    @@ "YEGAxog9gxiGXxo538aAQxq55XAebpFfwU72ZUxmSHm" :> <<8,0,0,0,0,0,0,0,0,0,0,0,0,0,0,0,0,0,0,0,0,0,0,0,0,0,0,0,0,0,0,0>>
    @@ "8c7xM72xw4SLPAyKqyiY2XnQ9VjRzJ6gZE4CFDkdR2uu" :> <<113,1,0,0,0,0,0,0,0,0,0,0,0,0,0,0,0,0,0,0,0,0,0,0,0,0,0,0,0,0,0,0>>
    @@ "CiDwVBFgWV9E5MvXWoLgnEgn2hK7rJikbvfWavzAQz3" :> <<3,0,0,0,0,0,0,0,0,0,0,0,0,0,0,0,0,0,0,0,0,0,0,0,0,0,0,0,0,0,0,0>>

\* Pubkey::from_str: Ok for a literal that decodes to 32 bytes.
Pubkey_from_str(s) ==
    IF s \in DOMAIN Base58Table /\ Len(Base58Table[s]) = 32
    THEN Ok(Base58Table[s]) ELSE Err("InvalidPublicKey")

ATA_PROGRAM_ID == Base58Table["ATokenGPvbdGVxr1b2hvZbsiqW5xWH25efTNsLJA8knL"]

METAPLEX_PROGRAM_ID == Base58Table["metaqbxxUerdq28cj1RbAWkYQm3ybzjb6a8bt518x1s"]

SPL_TOKEN_PROGRAM == Base58Table["TokenkegQfeZyiNwAJbNbGKPFXCWuBvf9Ss623VQ5DA"]

\* Pubkey::new_unique() of the tests: a key that is no catalogue entry.
UniquePubkey(n) == [i \in 1..32 |-> IF i = 1 THEN n ELSE 0]

(***************************************************************************)
(* SeedValue (types.rs)                                                    *)
(***************************************************************************)
SeedString(s) == [tag |-> "String", string |-> s]

SeedBytes(b) == [tag |-> "Bytes", bytes |-> b]

SeedPubkey(pk) == [tag |-> "Pubkey", pubkey |-> pk]

SeedU64(n) == [tag |-> "U64", u64 |-> n]

SeedU32(n) == [tag |-> "U32", u32 |-> n]

SeedU16(n) == [tag |-> "U16", u16 |-> n]

SeedU8(n) == [tag |-> "U8", u8 |-> n]

as_bytes(seed) ==
    CASE seed.tag = "String" -> str_as_bytes(seed.string)
      [] seed.tag = "Bytes"  -> seed.bytes
      [] seed.tag = "Pubkey" -> seed.pubkey
      [] seed.tag = "U64"    -> to_le_bytes(seed.u64, 8)
      [] seed.tag = "U32"    -> to_le_bytes(seed.u32, 4)
      [] seed.tag = "U16"    -> to_le_bytes(seed.u16, 2)
      [] seed.tag = "U8"     -> <<seed.u8>>

seed_type(seed) ==
    CASE seed.tag = "String" -> "string"
      [] seed.tag = "Bytes"  -> "bytes"
      [] seed.tag = "Pubkey" -> "pubkey"
      [] seed.tag = "U64"    -> "u64"
      [] seed.tag = "U32"    -> "u32"
      [] seed.tag = "U16"    -> "u16"
      [] seed.tag = "U8"     -> "u8"

\* seeds.iter().map(|s| s.as_bytes()).collect()
seed_bytes_of(seeds) == [i \in 1..Len(seeds) |-> as_bytes(seeds[i])]

(***************************************************************************)
(* AddressDeriver: hash, off-curve test, bump scan                         *)
(***************************************************************************)
\* One absorption step of the hash: a byte b takes the state h to
\* (b + 3) * h + 1 modulo 509.
Mix(h, b) == (h * (b + 3) + 1) % 509

\* Absorbing bytes[lo..hi] takes h to a * h + c modulo 509; the pair <<a, c>>
\* is computed by halving the range.
RECURSIVE AbsorbMap(_, _, _)
AbsorbMap(bytes, lo, hi) ==
    IF lo > hi THEN <<1, 0>>
    ELSE IF lo = hi THEN <<(bytes[lo] + 3) % 509, 1>>
    ELSE LET mid   == (lo + hi) \div 2
             left  == AbsorbMap(bytes, lo, mid)
             right == AbsorbMap(bytes, mid + 1, hi)
         IN  <<(left[1] * right[1]) % 509, (right[1] * left[2] + right[2]) % 509>>

Absorb(h, bytes) ==
    LET m == AbsorbMap(bytes, 1, Len(bytes)) IN (m[1] * h + m[2]) % 509

\* The hash state after the seed chunks, absorbed one after the other.
AbsorbAll(h, chunks) == Absorb(h, Concat(chunks))

\* What absorbing program id || marker does to the hash state.
TailMap(program_id) ==
    LET tail == program_id \o str_as_bytes("ProgramDerivedAddress") IN
    AbsorbMap(tail, 1, Len(tail))

\* The digest of seed chunks || [bump] || program id || marker, the chunks
\* already absorbed into hs and the tail given by its map.
DigestWith(tail, hs, bump) == (tail[1] * Mix(hs, bump) + tail[2]) % 509

Digest(hs, bump, program_id) == DigestWith(TailMap(program_id), hs, bump)

\* The digest as the 32 bytes of an address.
DigestPubkey(d) ==
    [i \in 1..32 |-> IF i = 1 THEN d % 256 ELSE IF i = 2 THEN d \div 256 ELSE 0]

\* Whether a digest is a point of the curve (then it is no derived address).
OnCurve(d) == d % 2 = 0

\* Pubkey::try_find_program_address(seeds, program_id): the bump candidates
\* 255, 254, ..., 0 in this order, the first whose digest is off the curve.
try_find_program_address(chunks, program_id) ==
    LET hs   == AbsorbAll(7, chunks)
        tail == TailMap(program_id)
        Accepted(bump) == ~OnCurve(DigestWith(tail, hs, bump))
    IN  IF \A bump \in 0..255 : ~Accepted(bump) THEN None
        ELSE LET k == CHOOSE n \in 0..255 :
                          Accepted(255 - n) /\ \A m \in 0..(n - 1) : ~Accepted(255 - m)
             IN  Some([address |-> DigestPubkey(DigestWith(tail, hs, 255 - k)),
                       bump |-> 255 - k])

(***************************************************************************)
(* PdaInfo and the candidate catalogues of the pattern families            *)
(***************************************************************************)
PdaInfo(address, program_id, seeds, bump) ==
    [address |-> address, program_id |-> program_id, seeds |-> seeds,
     bump |-> bump, first_seen_slot |-> None, first_seen_transaction |-> None]

\* One candidate of a family: the byte chunks handed to the deriver, the
\* SeedValue list reported on a match, the pattern tag and the confidence.
Candidate(raw, seeds, pattern, confidence) ==
    [raw |-> raw, seeds |-> seeds, pattern |-> pattern, confidence |-> confidence]

\* for x in literals { if let Ok(pk) = Pubkey::from_str(x) { body(pk) } }
ForEachPubkey(literals, body(_)) ==
    Concat([i \in 1..Len(literals) |->
        LET pk == Pubkey_from_str(literals[i]) IN
        IF pk.ok THEN body(pk.val) ELSE <<>>])

ata_test_wallets ==
    <<"9WzDXwBbmkg8ZTbNMqUxvQRAyrZzDsGYdLVL9zYtAWWM",
      "7gXKKGLQs2HpzrPTtBP7kkQ3LktDShQPE8VV9PYW9RSh",
      "5Q544fKrFoe6tsEbD7S8EmxGTJYAKtTVhAW5Q5pge4j1",
      "8szGkuLTAux9XMgZ2vtY39jVSowEcpBfFfD8hXSEqdGC">>

ata_test_mints ==
    <<"EPjFWdd5AufqSSqeM2qN1xzybapC8G4wEGGkZwyTDt1v",
      "So11111111111111111111111111111111111111112",
      "Es9vMFrzaCERmJfrF4H2FYD4KCoNkY11McCe8BenwNYB",
      "7gXKKGLQs2HpzrPTtBP7kkQ3LktDShQPE8VV9PYW9RSh">>

\* [wallet, token_program, mint]
ata_candidates ==
    ForEachPubkey(ata_test_wallets, LAMBDA wallet :
        ForEachPubkey(ata_test_mints, LAMBDA mint :
            <<Candidate(<<wallet, SPL_TOKEN_PROGRAM, mint>>,
                        <<SeedPubkey(wallet), SeedPubkey(SPL_TOKEN_PROGRAM), SeedPubkey(mint)>>,
                        "AssociatedTokenAccount", 98)>>))

metaplex_test_mints ==
    <<"7gXKKGLQs2HpzrPTtBP7kkQ3LktDShQPE8VV9PYW9RSh",
      "8HYrKZBRZk9CgGfVv5u3r5G4W3dP2Qe2Y7rZRzMhQKkx",
      "So11111111111111111111111111111111111111112">>

\* ["metadata", program_id, mint], then + "edition", then + edition number 1..=10
metaplex_candidates(program_id) ==
    ForEachPubkey(metaplex_test_mints, LAMBDA mint :
        <<Candidate(<<str_as_bytes("metadata"), program_id, mint>>,
                    <<SeedString("metadata"), SeedPubkey(program_id), SeedPubkey(mint)>>,
                    "MetaplexMetadata", 95),
          Candidate(<<str_as_bytes("metadata"), program_id, mint, str_as_bytes("edition")>>,
                    <<SeedString("metadata"), SeedPubkey(program_id), SeedPubkey(mint),
                      SeedString("edition")>>,
                    "MetaplexMasterEdition", 93)>>
        \o [edition_num \in 1..10 |->
              Candidate(<<str_as_bytes("metadata"), program_id, mint, str_as_bytes("edition"),
                          to_le_bytes(edition_num, 8)>>,
                        <<SeedString("metadata"), SeedPubkey(program_id), SeedPubkey(mint),
                          SeedString("edition"), SeedU64(edition_num)>>,
                        "MetaplexEdition", 90)])

common_strings ==
    <<"state", "config", "authority", "vault", "pool", "market",
      "escrow", "registry", "governance", "proposal", "metadata",
      "treasury", "rewards", "staking", "lending", "farming",
      "oracle", "price_feed", "liquidity", "swap", "mint_authority",
      "global", "settings", "admin", "owner", "controller">>

singleton_confidence_flat(string) == 80

singleton_confidence(string) ==
    IF string \in {"state", "config", "authority"} THEN 92
    ELSE IF string \in {"vault", "pool", "market"} THEN 88
    ELSE 85

singleton_candidates ==
    [i \in 1..Len(common_strings) |->
        Candidate(<<str_as_bytes(common_strings[i])>>,
                  <<SeedString(common_strings[i])>>,
                  "StringSingleton", singleton_confidence(common_strings[i]))]

test_authorities ==
    <<"11111111111111111111111111111112",
      "TokenkegQfeZyiNwAJbNbGKPFXCWuBvf9Ss623VQ5DA",
      "9WzDXwBbmkg8ZTbNMqUxvQRAyrZzDsGYdLVL9zYtAWWM",
      "7gXKKGLQs2HpzrPTtBP7kkQ3LktDShQPE8VV9PYW9RSh">>

\* [authority]; ["authority", authority]; [authority, nonce 0..=10];
\* [authority, bump_seed 250..=255]
authority_candidates ==
    ForEachPubkey(test_authorities, LAMBDA authority :
        <<Candidate(<<authority>>, <<SeedPubkey(authority)>>, "StringAuthority", 87),
          Candidate(<<str_as_bytes("authority"), authority>>,
                    <<SeedString("authority"), SeedPubkey(authority)>>,
                    "StringPubkey", 85)>>
        \o [n \in 1..11 |->
              Candidate(<<authority, to_le_bytes(n - 1, 8)>>,
                        <<SeedPubkey(authority), SeedU64(n - 1)>>, "PubkeyU64", 83)]
        \o [b \in 1..6 |->
              Candidate(<<authority, <<249 + b>> >>,
                        <<SeedPubkey(authority), SeedU8(249 + b)>>, "PubkeyU8", 82)])

sequential_prefixes == <<"account", "user", "pool", "vault", "market", "index", "item">>

\* The sequential candidates with the u64 index reported as a u32 seed.
sequential_candidates_u32_label ==
    Concat([p \in 1..Len(sequential_prefixes) |->
        LET prefix == sequential_prefixes[p] IN
        Concat([n \in 1..51 |->
            <<Candidate(<<str_as_bytes(prefix), to_le_bytes(n - 1, 8)>>,
                        <<SeedString(prefix), SeedU32(n - 1)>>, "Sequential", 80),
              Candidate(<<str_as_bytes(prefix), to_le_bytes(n - 1, 4)>>,
                        <<SeedString(prefix), SeedU32(n - 1)>>, "Sequential", 78)>>])])

\* The sequential candidates with the u32 index tried before the u64 index.
sequential_candidates_u32_first ==
    Concat([p \in 1..Len(sequential_prefixes) |->
        LET prefix == sequential_prefixes[p] IN
        Concat([n \in 1..51 |->
            <<Candidate(<<str_as_bytes(prefix), to_le_bytes(n - 1, 4)>>,
                        <<SeedString(prefix), SeedU32(n - 1)>>, "Sequential", 78),
              Candidate(<<str_as_bytes(prefix), to_le_bytes(n - 1, 8)>>,
                        <<SeedString(prefix), SeedU64(n - 1)>>, "Sequential", 80)>>])])

\* for each prefix, for i in 0..=50: [prefix, i as u64] then [prefix, i as u32]
sequential_candidates ==
    Concat([p \in 1..Len(sequential_prefixes) |->
        LET prefix == sequential_prefixes[p] IN
        Concat([n \in 1..51 |->
            <<Candidate(<<str_as_bytes(prefix), to_le_bytes(n - 1, 8)>>,
                        <<SeedString(prefix), SeedU64(n - 1)>>, "Sequential", 80),
              Candidate(<<str_as_bytes(prefix), to_le_bytes(n - 1, 4)>>,
                        <<SeedString(prefix), SeedU32(n - 1)>>, "Sequential", 78)>>])])

complex_strings == <<"governance", "proposal", "vote", "realm", "council">>

complex_test_pubkeys ==
    <<"11111111111111111111111111111112",
      "DPiH3H3c7t47BMxqTxLsuPQpEC6Kne8GA9VXbxpnZxFE",
      "7gXKKGLQs2HpzrPTtBP7kkQ3LktDShQPE8VV9PYW9RSh">>

\* The complex candidates without the test s1 != s2.
complex_candidates_unfiltered ==
    Concat([a \in 1..Len(complex_strings) |->
        LET s1 == complex_strings[a] IN
        ForEachPubkey(complex_test_pubkeys, LAMBDA pubkey :
            Concat([b \in 1..Len(complex_strings) |->
                LET s2 == complex_strings[b] IN
                [n \in 1..3 |->
                    Candidate(<<str_as_bytes(s1), pubkey, str_as_bytes(s2),
                                to_le_bytes(n - 1, 4)>>,
                              <<SeedString(s1), SeedPubkey(pubkey), SeedString(s2),
                                SeedU32(n - 1)>>,
                              "Complex", 75)]]))])

\* [s1, pubkey, s2, num] for s1 # s2 and num in 0, 1, 2
complex_candidates ==
    Concat([a \in 1..Len(complex_strings) |->
        LET s1 == complex_strings[a] IN
        ForEachPubkey(complex_test_pubkeys, LAMBDA pubkey :
            Concat([b \in 1..Len(complex_strings) |->
                LET s2 == complex_strings[b] IN
                IF s1 # s2
                THEN [n \in 1..3 |->
                        Candidate(<<str_as_bytes(s1), pubkey, str_as_bytes(s2),
                                    to_le_bytes(n - 1, 4)>>,
                                  <<SeedString(s1), SeedPubkey(pubkey), SeedString(s2),
                                    SeedU32(n - 1)>>,
                                  "Complex", 75)]
                ELSE <<>>]))])

\* The families with the authority family before the singleton strings.
FamilyOrder_authority_first ==
    <<"associated_token_account", "metaplex", "authority",
      "string_singleton", "sequential", "complex">>

\* The families in the order analyze_pda tries them.
FamilyOrder ==
    <<"associated_token_account", "metaplex", "string_singleton",
      "authority", "sequential", "complex">>

\* The candidates a family enumerates for a program id, in the order of its loops.
FamilyCandidates(family, program_id) ==
    CASE family = "associated_token_account" -> ata_candidates
      [] family = "metaplex"         -> metaplex_candidates(program_id)
      [] family = "string_singleton" -> singleton_candidates
      [] family = "authority"        -> authority_candidates
      [] family = "sequential"       -> sequential_candidates
      [] family = "complex"          -> complex_candidates

(***************************************************************************)
(* Inputs of the model                                                     *)
(***************************************************************************)
\* A program id as the tests make it with Pubkey::new_unique().
TEST_PROGRAM_ID == UniquePubkey(5)

ProgramIds == {ATA_PROGRAM_ID, METAPLEX_PROGRAM_ID, TEST_PROGRAM_ID}

\* The seed lists handed to derive_pda and verify_pda.  <<215>> has no
\* off-curve bump under TEST_PROGRAM_ID; "state" and its UTF-8 bytes, and
\* <<215>> and the u8 215, are different seed lists with equal bytes.
SeedLists ==
    {<<SeedString("state")>>,
     <<SeedBytes(<<115, 116, 97, 116, 101>>)>>,
     <<SeedBytes(<<215>>)>>,
     <<SeedU8(215)>>,
     <<>>,
     <<SeedString("cache_test"), SeedU16(7)>>}

DeriveInputs ==
    {<<TEST_PROGRAM_ID, seeds>> : seeds \in SeedLists}
    \cup {<<METAPLEX_PROGRAM_ID, <<SeedString("state")>> >>,
          <<METAPLEX_PROGRAM_ID, <<SeedBytes(<<215>>)>> >>}

\* The derivations of the input seed lists, computed once.
PdaTable ==
    [k \in {<<x[1], seed_bytes_of(x[2])>> : x \in DeriveInputs} |->
        try_find_program_address(k[2], k[1])]

find_program_address_of(chunks, program_id) ==
    IF <<program_id, chunks>> \in DOMAIN PdaTable
    THEN PdaTable[<<program_id, chunks>>]
    ELSE try_find_program_address(chunks, program_id)

\* The candidates of every family and their derivations, computed once per
\* program id.
FamilyNames == {FamilyOrder[i] : i \in 1..Len(FamilyOrder)}

CandidateTable ==
    [p \in ProgramIds |-> [f \in FamilyNames |-> FamilyCandidates(f, p)]]

\* Pubkey::try_find_program_address on each candidate of a list.
DeriveEach(cands, program_id) ==
    [i \in 1..Len(cands) |-> try_find_program_address(cands[i].raw, program_id)]

DerivedTable ==
    [p \in ProgramIds |-> [f \in FamilyNames |-> DeriveEach(CandidateTable[p][f], p)]]

(***************************************************************************)
(* PdaAnalyzer                                                             *)
(***************************************************************************)
\* solana_sdk::system_program::id()
SYSTEM_PROGRAM_ID == [i \in 1..32 |-> 0]

\* The (literal, name) pairs PdaAnalyzer::new registers.
known_program_literals ==
    <<<<"TokenkegQfeZyiNwAJbNbGKPFXCWuBvf9Ss623VQ5DA", "SPL Token">>,
      <<"ATokenGPvbdGVxr1b2hvZbsiqW5xWH25efTNsLJA8knL", "SPL Associated Token Account">>,
      <<"metaqbxxUerdq28cj1RbAWkYQm3ybzjb6a8bt518x1s", "Metaplex Token Metadata">>,
      <<"CndyV3LdqHUfDLmE5naZjVN8rBZz4tqhdefbAnjHG3JR", "Metaplex Candy Machine">>,
      <<"hausS13jsjafwWwGqZTUQRmWyvyxn9EQpqMwV1PBBmk", "Metaplex Auction House">>,
      <<"9xQeWvG816bUx9EPjHmaT23yvVM2ZWbrrpZb9PusVFin", "Serum DEX">>,
      <<"675kPX9MHTjS2zt1qfr1NYHuzeLXfQM9H24wFSUt1Mp8", "Raydium AMM">>,
      <<"MarBmsSgKXdrN1egZf5sqe1TMai9K1rChYNDJgjq7aD", "Marinade Finance">>,
      <<"namesLPneVptA9Z5rqUDD9tMTWEJwofgaYwp8cawRkX", "Solana Name Service">>,
      <<"GovER5Lthms3bLBqWub97yVrMmEogzX7xNjdXpPPCVZw", "SPL Governance">>>>

\* PdaAnalyzer::new: the names of the well-known programs.
new_known_programs ==
    LET registered == {i \in 1..Len(known_program_literals) :
                          Pubkey_from_str(known_program_literals[i][1]).ok}
        KeyOf(i)   == Pubkey_from_str(known_program_literals[i][1]).val
    IN  [pk \in {SYSTEM_PROGRAM_ID} \cup {KeyOf(i) : i \in registered} |->
            IF pk = SYSTEM_PROGRAM_ID THEN "System Program"
            ELSE known_program_literals[CHOOSE i \in registered : KeyOf(i) = pk][2]]

\* The first candidate whose derived address is the target, and the number
\* of candidates derived up to it.
FirstMatch(cands, derived, address, program_id) ==
    LET hits == {i \in 1..Len(cands) :
                    derived[i].some /\ derived[i].val.address = address}
        first == CHOOSE h \in hits : \A j \in hits : h <= j
    IN  IF hits = {} THEN [found |-> None, tried |-> Len(cands)]
        ELSE [found |-> Some([pda_info   |-> PdaInfo(address, program_id, cands[first].seeds,
                                                     derived[first].val.bump),
                              pattern    |-> cands[first].pattern,
                              confidence |-> cands[first].confidence]),
              tried |-> first]

\* The candidate loop of a family: derive each candidate in order and stop
\* at the first whose address is the target.  tried counts the derivations.
ScanFamily(family, address, program_id) ==
    FirstMatch(CandidateTable[program_id][family], DerivedTable[program_id][family],
               address, program_id)

try_associated_token_account(address, program_id) ==
    LET ata_program_id == Pubkey_from_str("ATokenGPvbdGVxr1b2hvZbsiqW5xWH25efTNsLJA8knL")
        spl_token_program == Pubkey_from_str("TokenkegQfeZyiNwAJbNbGKPFXCWuBvf9Ss623VQ5DA")
    IN  IF ~ata_program_id.ok THEN [res |-> Err(ata_program_id.err), tried |-> 0]
        ELSE IF program_id # ata_program_id.val THEN [res |-> Ok(None), tried |-> 0]
        ELSE IF ~spl_token_program.ok THEN [res |-> Err(spl_token_program.err), tried |-> 0]
        ELSE LET s == ScanFamily("associated_token_account", address, program_id) IN
             [res |-> Ok(s.found), tried |-> s.tried]

try_metaplex_patterns(address, program_id) ==
    LET metaplex_program_id == Pubkey_from_str("metaqbxxUerdq28cj1RbAWkYQm3ybzjb6a8bt518x1s")
    IN  IF ~metaplex_program_id.ok THEN [res |-> Err(metaplex_program_id.err), tried |-> 0]
        ELSE IF program_id # metaplex_program_id.val THEN [res |-> Ok(None), tried |-> 0]
        ELSE LET s == ScanFamily("metaplex", address, program_id) IN
             [res |-> Ok(s.found), tried |-> s.tried]

try_string_singleton_patterns(address, program_id) ==
    LET s == ScanFamily("string_singleton", address, program_id) IN
    [res |-> Ok(s.found), tried |-> s.tried]

try_authority_patterns(address, program_id) ==
    LET s == ScanFamily("authority", address, program_id) IN
    [res |-> Ok(s.found), tried |-> s.tried]

try_sequential_patterns(address, program_id) ==
    LET s == ScanFamily("sequential", address, program_id) IN
    [res |-> Ok(s.found), tried |-> s.tried]

\* try_complex_patterns that reports an exhausted family as an error.
try_complex_patterns_no_match_error(address, program_id) ==
    LET s == ScanFamily("complex", address, program_id) IN
    [res |-> IF s.found.some THEN Ok(s.found) ELSE Err("NoPatternFound"),
     tried |-> s.tried]

try_complex_patterns(address, program_id) ==
    LET s == ScanFamily("complex", address, program_id) IN
    [res |-> Ok(s.found), tried |-> s.tried]

try_family(family, address, program_id) ==
    CASE family = "associated_token_account" -> try_associated_token_account(address, program_id)
      [] family = "metaplex"         -> try_metaplex_patterns(address, program_id)
      [] family = "string_singleton" -> try_string_singleton_patterns(address, program_id)
      [] family = "authority"        -> try_authority_patterns(address, program_id)
      [] family = "sequential"       -> try_sequential_patterns(address, program_id)
      [] family = "complex"          -> try_complex_patterns(address, program_id)

\* result_pattern with the singleton family tagged as a string/authority pair.
result_pattern_singleton_mistagged(family, found) ==
    CASE family = "associated_token_account" -> "AssociatedTokenAccount"
      [] family = "string_singleton" -> "StringAuthority"
      [] family = "sequential"       -> "Sequential"
      [] family = "complex"          -> "Complex"
      [] OTHER                       -> found.pattern

\* The pattern analyze_pda writes into the result of a family.
result_pattern(family, found) ==
    CASE family = "associated_token_account" -> "AssociatedTokenAccount"
      [] family = "string_singleton" -> "StringSingleton"
      [] family = "sequential"       -> "Sequential"
      [] family = "complex"          -> "Complex"
      [] OTHER                       -> found.pattern

\* analyze_pda from the k-th family on.  trials lists the families tried so
\* far with the number of derivations each made.  The result carries no
\* analysis_time_ms: it is wall-clock time.
RECURSIVE analyze_from(_, _, _, _)
RECURSIVE analyze_family(_, _, _, _, _)

analyze_from(k, address, program_id, trials) ==
    IF k > Len(FamilyOrder) THEN [result |-> Ok(None), trials |-> trials]
    ELSE analyze_family(k, try_family(FamilyOrder[k], address, program_id),
                        address, program_id, trials)

\* One `if let Some(..) = self.try_..(address, program_id)? { .. return }` of
\* analyze_pda, t being what the family returned.
analyze_family(k, t, address, program_id, trials) ==
    IF ~t.res.ok
    THEN [result |-> Err(t.res.err),
          trials |-> Append(trials, [family |-> FamilyOrder[k], tried |-> t.tried])]
    ELSE IF t.res.val.some
    THEN [result |-> Ok(Some([pda_info   |-> t.res.val.val.pda_info,
                              pattern    |-> result_pattern(FamilyOrder[k], t.res.val.val),
                              confidence |-> t.res.val.val.confidence])),
          trials |-> Append(trials, [family |-> FamilyOrder[k], tried |-> t.tried])]
    ELSE analyze_from(k + 1, address, program_id,
                      Append(trials, [family |-> FamilyOrder[k], tried |-> t.tried]))

analyze_pda(address, program_id) == analyze_from(1, address, program_id, <<>>)

\* update_pattern_stats that stores 1 instead of adding 1.
update_pattern_stats_overwrite(stats, pattern) ==
    [t \in DOMAIN stats \cup {pattern} |-> IF t = pattern THEN 1 ELSE stats[t]]

\* *self.pattern_stats.entry(pattern).or_insert(0) += 1
update_pattern_stats(stats, pattern) ==
    IF pattern \in DOMAIN stats
    THEN [stats EXCEPT ![pattern] = @ + 1]
    ELSE stats @@ (pattern :> 1)

cache_stats(c) ==
    [hits  |-> Cardinality({k \in DOMAIN c : c[k].some}),
     total |-> Cardinality(DOMAIN c)]

\* HashMap::insert
cache_insert(c, key, value) ==
    [k \in DOMAIN c \cup {key} |-> IF k = key THEN value ELSE c[k]]

\* derive_pda with a cache keyed by the seed bytes alone.
derive_pda_program_blind(c, program_id, seeds) ==
    LET seed_bytes == seed_bytes_of(seeds)
        cache_key  == <<SYSTEM_PROGRAM_ID, seed_bytes>>
    IN  IF cache_key \in DOMAIN c /\ c[cache_key].some
        THEN [result |-> Ok(c[cache_key].val), cache |-> c, searched |-> FALSE]
        ELSE LET found == find_program_address_of(seed_bytes, program_id) IN
             IF found.some
             THEN LET pda_info == PdaInfo(found.val.address, program_id, seeds,
                                          found.val.bump)
                  IN [result |-> Ok(pda_info),
                      cache |-> cache_insert(c, cache_key, Some(pda_info)),
                      searched |-> TRUE]
             ELSE [result |-> Err("PdaDerivationFailed"),
                   cache |-> cache_insert(c, cache_key, None),
                   searched |-> TRUE]

\* derive_pda that answers a cache hit with the bump the scan starts from.
derive_pda_stale_bump(c, program_id, seeds) ==
    LET seed_bytes == seed_bytes_of(seeds)
        cache_key  == <<program_id, seed_bytes>>
    IN  IF cache_key \in DOMAIN c /\ c[cache_key].some
        THEN [result |-> Ok([c[cache_key].val EXCEPT !.bump = 255]), cache |-> c,
              searched |-> FALSE]
        ELSE LET found == find_program_address_of(seed_bytes, program_id) IN
             IF found.some
             THEN LET pda_info == PdaInfo(found.val.address, program_id, seeds,
                                          found.val.bump)
                  IN [result |-> Ok(pda_info),
                      cache |-> cache_insert(c, cache_key, Some(pda_info)),
                      searched |-> TRUE]
             ELSE [result |-> Err("PdaDerivationFailed"),
                   cache |-> cache_insert(c, cache_key, None),
                   searched |-> TRUE]

\* derive_pda that falls back to a default address when no bump is found.
derive_pda_unwrap_default(c, program_id, seeds) ==
    LET seed_bytes == seed_bytes_of(seeds)
        cache_key  == <<program_id, seed_bytes>>
    IN  IF cache_key \in DOMAIN c /\ c[cache_key].some
        THEN [result |-> Ok(c[cache_key].val), cache |-> c, searched |-> FALSE]
        ELSE LET found == find_program_address_of(seed_bytes, program_id)
                 pda_info == IF found.some
                             THEN PdaInfo(found.val.address, program_id, seeds, found.val.bump)
                             ELSE PdaInfo(SYSTEM_PROGRAM_ID, program_id, seeds, 0)
             IN [result |-> Ok(pda_info),
                 cache |-> cache_insert(c, cache_key, Some(pda_info)),
                 searched |-> TRUE]

\* derive_pda that does not store a failed derivation.
derive_pda_forgets_failure(c, program_id, seeds) ==
    LET seed_bytes == seed_bytes_of(seeds)
        cache_key  == <<program_id, seed_bytes>>
    IN  IF cache_key \in DOMAIN c /\ c[cache_key].some
        THEN [result |-> Ok(c[cache_key].val), cache |-> c, searched |-> FALSE]
        ELSE LET found == find_program_address_of(seed_bytes, program_id) IN
             IF found.some
             THEN LET pda_info == PdaInfo(found.val.address, program_id, seeds,
                                          found.val.bump)
                  IN [result |-> Ok(pda_info),
                      cache |-> cache_insert(c, cache_key, Some(pda_info)),
                      searched |-> TRUE]
             ELSE [result |-> Err("PdaDerivationFailed"), cache |-> c, searched |-> TRUE]

derive_pda(c, program_id, seeds) ==
    LET seed_bytes == seed_bytes_of(seeds)
        cache_key  == <<program_id, seed_bytes>>
    IN  IF cache_key \in DOMAIN c /\ c[cache_key].some
        THEN [result |-> Ok(c[cache_key].val), cache |-> c, searched |-> FALSE]
        ELSE LET found == find_program_address_of(seed_bytes, program_id) IN
             IF found.some
             THEN LET pda_info == PdaInfo(found.val.address, program_id, seeds,
                                          found.val.bump)
                  IN [result |-> Ok(pda_info),
                      cache |-> cache_insert(c, cache_key, Some(pda_info)),
                      searched |-> TRUE]
             ELSE [result |-> Err("PdaDerivationFailed"),
                   cache |-> cache_insert(c, cache_key, None),
                   searched |-> TRUE]

\* PdaDeriver::verify_pda: re-derive and compare.
verify_pda(address, program_id, seeds) ==
    LET found == find_program_address_of(seed_bytes_of(seeds), program_id) IN
    IF found.some THEN Ok(found.val.address = address)
    ELSE Err("PdaDerivationFailed")

(***************************************************************************)
(* The analyzer as a state machine                                         *)
(***************************************************************************)
\* The address a seed list derives under a program id.
TargetOf(program_id, seeds) ==
    try_find_program_address(seed_bytes_of(seeds), program_id).val.address

\* A key of the tests' Pubkey::new_unique() kind that no derivation yields.
UNRELATED_ADDRESS == UniquePubkey(8)

\* The (address, program id) pairs handed to analyze_pda: addresses derived
\* from a candidate of each family, an unrelated address, and an address
\* derived under another program id.  Among 509 digests two seed lists can
\* share an address; the singleton addresses taken here are derived by one
\* catalogue string only and by no candidate of an earlier family, as every
\* address is under a collision-resistant hash.
AnalyzeInputs ==
    {<<TargetOf(TEST_PROGRAM_ID, <<SeedString("state")>>), TEST_PROGRAM_ID>>,
     <<TargetOf(TEST_PROGRAM_ID, <<SeedString("treasury")>>), TEST_PROGRAM_ID>>,
     <<TargetOf(TEST_PROGRAM_ID,
                <<SeedPubkey(Base58Table["7gXKKGLQs2HpzrPTtBP7kkQ3LktDShQPE8VV9PYW9RSh"]),
                  SeedU64(2)>>), TEST_PROGRAM_ID>>,
     <<TargetOf(TEST_PROGRAM_ID, <<SeedString("account"), SeedU64(4)>>), TEST_PROGRAM_ID>>,
     <<TargetOf(TEST_PROGRAM_ID,
                <<SeedString("council"),
                  SeedPubkey(Base58Table["11111111111111111111111111111112"]),
                  SeedString("proposal"), SeedU32(1)>>), TEST_PROGRAM_ID>>,
     <<UNRELATED_ADDRESS, TEST_PROGRAM_ID>>,
     <<TargetOf(METAPLEX_PROGRAM_ID,
                <<SeedString("metadata"), SeedPubkey(METAPLEX_PROGRAM_ID),
                  SeedPubkey(Base58Table["So11111111111111111111111111111111111111112"]),
                  SeedString("edition")>>),
       METAPLEX_PROGRAM_ID>>,
     <<TargetOf(METAPLEX_PROGRAM_ID, <<SeedString("state")>>), METAPLEX_PROGRAM_ID>>,
     <<TargetOf(ATA_PROGRAM_ID, <<SeedString("config")>>), ATA_PROGRAM_ID>>,
     <<TargetOf(ATA_PROGRAM_ID,
                <<SeedPubkey(Base58Table["9WzDXwBbmkg8ZTbNMqUxvQRAyrZzDsGYdLVL9zYtAWWM"]),
                  SeedPubkey(SPL_TOKEN_PROGRAM),
                  SeedPubkey(Base58Table["EPjFWdd5AufqSSqeM2qN1xzybapC8G4wEGGkZwyTDt1v"])>>),
       ATA_PROGRAM_ID>>,
     <<TargetOf(ATA_PROGRAM_ID,
                <<SeedPubkey(Base58Table["9WzDXwBbmkg8ZTbNMqUxvQRAyrZzDsGYdLVL9zYtAWWM"]),
                  SeedPubkey(SPL_TOKEN_PROGRAM),
                  SeedPubkey(Base58Table["EPjFWdd5AufqSSqeM2qN1xzybapC8G4wEGGkZwyTDt1v"])>>),
       TEST_PROGRAM_ID>>}

\* analyze_pda on the input pairs, computed once.
AnalyzeTable == [x \in AnalyzeInputs |-> analyze_pda(x[1], x[2])]

\* The (address, program id, seeds) triples handed to verify_pda.
VerifyInputs ==
    {<<address, TEST_PROGRAM_ID, seeds>> :
        address \in {TargetOf(TEST_PROGRAM_ID, <<SeedString("state")>>), UNRELATED_ADDRESS},
        seeds \in {<<SeedString("state")>>, <<SeedBytes(<<215>>)>>}}

\* No analyze_pda call is being followed.
no_search ==
    [pc |-> "idle", address |-> SYSTEM_PROGRAM_ID, program_id |-> SYSTEM_PROGRAM_ID,
     k |-> 1, tried |-> 0, total |-> 0, last |-> <<>>, result |-> Ok(None)]

\* PdaAnalyzer::new
new_analyzer ==
    /\ cache = << >>
    /\ known_programs = new_known_programs
    /\ pattern_stats = << >>
    /\ history = <<>>
    /\ search = no_search

\* No server runs: the analyzer is called directly, as the tests do.
no_server ==
    /\ server = "none"
    /\ lock = [writer |-> 0, readers |-> {}]
    /\ requests = <<>>

\* PatternDetector::new
new_detector == [known_patterns |-> << >>, detected_patterns |-> << >>]

\* No detector is used.
no_detector ==
    /\ detector = new_detector
    /\ builtin_patterns = << >>
    /\ pdas = <<>>

Init ==
    /\ new_analyzer
    /\ no_server
    /\ no_detector

DerivePda(program_id, seeds) ==
    /\ Len(history) < MaxCalls
    /\ LET d == derive_pda(cache, program_id, seeds) IN
       /\ cache' = d.cache
       /\ history' = Append(history,
              [op |-> "derive_pda", program_id |-> program_id, seeds |-> seeds,
               key |-> <<program_id, seed_bytes_of(seeds)>>,
               result |-> d.result, searched |-> d.searched,
               stats_before |-> cache_stats(cache), stats_after |-> cache_stats(d.cache)])
    /\ UNCHANGED <<known_programs, pattern_stats>>
    /\ UNCHANGED <<api_vars, search, detector_vars>>

VerifyPda(address, program_id, seeds) ==
    /\ Len(history) < MaxCalls
    /\ history' = Append(history,
           [op |-> "verify_pda", address |-> address, program_id |-> program_id,
            seeds |-> seeds, result |-> verify_pda(address, program_id, seeds)])
    /\ UNCHANGED <<cache, known_programs, pattern_stats>>
    /\ UNCHANGED <<api_vars, search, detector_vars>>

\* The counters after analyze_pda has returned a: a match is counted before
\* the return.
stats_after_analysis(stats, a) ==
    IF a.result.ok /\ a.result.val.some
    THEN update_pattern_stats(stats, a.result.val.val.pattern)
    ELSE stats

AnalyzePda(address, program_id) ==
    /\ Len(history) < MaxCalls
    /\ pattern_stats' =
           stats_after_analysis(pattern_stats, AnalyzeTable[<<address, program_id>>])
    /\ history' = Append(history,
           [op |-> "analyze_pda", address |-> address, program_id |-> program_id,
            result |-> AnalyzeTable[<<address, program_id>>].result,
            trials |-> AnalyzeTable[<<address, program_id>>].trials,
            stats_before |-> pattern_stats,
            stats_after |->
                stats_after_analysis(pattern_stats, AnalyzeTable[<<address, program_id>>])])
    /\ UNCHANGED <<cache, known_programs>>
    /\ UNCHANGED <<api_vars, search, detector_vars>>

\* clear_cache that resets the counters with the cache.
ClearCache_with_counters ==
    /\ Len(history) < MaxCalls
    /\ cache' = << >>
    /\ pattern_stats' = << >>
    /\ history' = Append(history, [op |-> "clear_cache"])
    /\ UNCHANGED <<known_programs>>
    /\ UNCHANGED <<api_vars, search, detector_vars>>

ClearCache ==
    /\ Len(history) < MaxCalls
    /\ cache' = << >>
    /\ history' = Append(history, [op |-> "clear_cache"])
    /\ UNCHANGED <<known_programs, pattern_stats>>
    /\ UNCHANGED <<api_vars, search, detector_vars>>

Next ==
    \/ \E x \in DeriveInputs : DerivePda(x[1], x[2])
    \/ \E x \in VerifyInputs : VerifyPda(x[1], x[2], x[3])
    \/ \E x \in AnalyzeInputs : AnalyzePda(x[1], x[2])
    \/ ClearCache

Spec == Init /\ [][Next]_vars

(***************************************************************************)
(* analyze_pda a derivation at a time                                      *)
(*                                                                         *)
(* A call runs on &mut self from its first family to its return: pc is     *)
(* "enter" before the program-id test of family k, "scan" inside its       *)
(* candidate loop, "done" at the return.  tried counts the derivations of  *)
(* the current family, total those of the call, last is the seed list of   *)
(* the candidate derived last.                                             *)
(***************************************************************************)
\* The targets followed: the analysed pairs, seed lists of the two
\* program-bound families derived under the test program, and candidates
\* late in the order of the authority and sequential families.
SearchInputs ==
    AnalyzeInputs \cup
    {<<TargetOf(TEST_PROGRAM_ID,
                <<SeedPubkey(Base58Table["9WzDXwBbmkg8ZTbNMqUxvQRAyrZzDsGYdLVL9zYtAWWM"]),
                  SeedPubkey(SPL_TOKEN_PROGRAM),
                  SeedPubkey(Base58Table["EPjFWdd5AufqSSqeM2qN1xzybapC8G4wEGGkZwyTDt1v"])>>),
       TEST_PROGRAM_ID>>,
     <<TargetOf(TEST_PROGRAM_ID,
                <<SeedString("metadata"), SeedPubkey(TEST_PROGRAM_ID),
                  SeedPubkey(Base58Table["So11111111111111111111111111111111111111112"])>>),
       TEST_PROGRAM_ID>>,
     <<TargetOf(TEST_PROGRAM_ID,
                <<SeedPubkey(Base58Table["TokenkegQfeZyiNwAJbNbGKPFXCWuBvf9Ss623VQ5DA"])>>),
       TEST_PROGRAM_ID>>,
     <<TargetOf(TEST_PROGRAM_ID,
                <<SeedString("authority"),
                  SeedPubkey(Base58Table["9WzDXwBbmkg8ZTbNMqUxvQRAyrZzDsGYdLVL9zYtAWWM"])>>),
       TEST_PROGRAM_ID>>,
     <<TargetOf(TEST_PROGRAM_ID,
                <<SeedPubkey(Base58Table["11111111111111111111111111111112"]),
                  SeedU8(252)>>), TEST_PROGRAM_ID>>,
     <<TargetOf(TEST_PROGRAM_ID, <<SeedString("user"), SeedU32(7)>>), TEST_PROGRAM_ID>>,
     <<TargetOf(TEST_PROGRAM_ID, <<SeedString("item"), SeedU64(50)>>), TEST_PROGRAM_ID>>,
     <<UNRELATED_ADDRESS, ATA_PROGRAM_ID>>,
     <<UNRELATED_ADDRESS, METAPLEX_PROGRAM_ID>>}

family_gate_open(family, program_id) == Ok(TRUE)

\* The test a family makes before its loops: `if *program_id != .. { return
\* Ok(None) }` after the from_str(..)? of its constants.
family_gate(family, program_id) ==
    CASE family = "associated_token_account" ->
           IF ~Pubkey_from_str("ATokenGPvbdGVxr1b2hvZbsiqW5xWH25efTNsLJA8knL").ok
           THEN Err("InvalidPubkey")
           ELSE IF program_id # Pubkey_from_str("ATokenGPvbdGVxr1b2hvZbsiqW5xWH25efTNsLJA8knL").val
           THEN Ok(FALSE)
           ELSE IF ~Pubkey_from_str("TokenkegQfeZyiNwAJbNbGKPFXCWuBvf9Ss623VQ5DA").ok
           THEN Err("InvalidPubkey")
           ELSE Ok(TRUE)
      [] family = "metaplex" ->
           IF ~Pubkey_from_str("metaqbxxUerdq28cj1RbAWkYQm3ybzjb6a8bt518x1s").ok
           THEN Err("InvalidPubkey")
           ELSE Ok(program_id = Pubkey_from_str("metaqbxxUerdq28cj1RbAWkYQm3ybzjb6a8bt518x1s").val)
      [] OTHER -> Ok(TRUE)

\* A family returned Ok(None): analyze_pda goes on to the next `if let`, or
\* to its final Ok(None).
next_family(s) ==
    IF s.k = Len(FamilyOrder) THEN [s EXCEPT !.pc = "done", !.result = Ok(None)]
    ELSE [s EXCEPT !.pc = "enter", !.k = @ + 1, !.tried = 0]

\* One turn of a candidate loop on candidate cand, derived as d: the match
\* is returned, or the loop goes on, or the family ends.
derive_candidate(s, family, cand, d, last) ==
    IF d.some /\ d.val.address = s.address
    THEN [s EXCEPT !.pc = "done", !.tried = @ + 1, !.total = @ + 1, !.last = cand.seeds,
                   !.result = Ok(Some([pda_info   |-> PdaInfo(s.address, s.program_id,
                                                              cand.seeds, d.val.bump),
                                       pattern    |-> result_pattern(family, cand),
                                       confidence |-> cand.confidence]))]
    ELSE IF last
    THEN next_family([s EXCEPT !.tried = @ + 1, !.total = @ + 1, !.last = cand.seeds])
    ELSE [s EXCEPT !.tried = @ + 1, !.total = @ + 1, !.last = cand.seeds]

\* analyzer.analyze_pda(&address, &program_id) is called.
StartSearch(address, program_id) ==
    /\ search.pc = "idle"
    /\ search' = [search EXCEPT !.pc = "enter", !.address = address,
                                !.program_id = program_id]
    /\ UNCHANGED <<cache, known_programs, pattern_stats, history, api_vars, detector_vars>>

\* self.try_..(address, program_id)? up to its first loop.
EnterFamily ==
    /\ search.pc = "enter"
    /\ search' =
           IF ~family_gate(FamilyOrder[search.k], search.program_id).ok
           THEN [search EXCEPT !.pc = "done",
                    !.result = Err(family_gate(FamilyOrder[search.k], search.program_id).err)]
           ELSE IF family_gate(FamilyOrder[search.k], search.program_id).val
                   /\ CandidateTable[search.program_id][FamilyOrder[search.k]] # <<>>
           THEN [search EXCEPT !.pc = "scan"]
           ELSE next_family(search)
    /\ UNCHANGED <<cache, known_programs, pattern_stats, history, api_vars, detector_vars>>

\* One try_find_program_address and its comparison with the target; a match
\* is counted in pattern_stats before analyze_pda returns it.
DeriveCandidate ==
    /\ search.pc = "scan"
    /\ search' = derive_candidate(
           search, FamilyOrder[search.k],
           CandidateTable[search.program_id][FamilyOrder[search.k]][search.tried + 1],
           DerivedTable[search.program_id][FamilyOrder[search.k]][search.tried + 1],
           search.tried + 1 = Len(CandidateTable[search.program_id][FamilyOrder[search.k]]))
    /\ pattern_stats' =
           IF search'.pc = "done" /\ search'.result.ok /\ search'.result.val.some
           THEN update_pattern_stats(pattern_stats, search'.result.val.val.pattern)
           ELSE pattern_stats
    /\ UNCHANGED <<cache, known_programs, history, api_vars, detector_vars>>

SearchNext ==
    \/ \E x \in SearchInputs : StartSearch(x[1], x[2])
    \/ EnterFamily
    \/ DeriveCandidate

SearchSpec == Init /\ [][SearchNext]_vars

\* The call runs to its return: nothing suspends it between two derivations.
FairSearchSpec == SearchSpec /\ WF_vars(SearchNext)

(***************************************************************************)
(* batch_analyze                                                           *)
(***************************************************************************)
MaxBatch == 3

RECURSIVE batch_from(_, _, _, _)
RECURSIVE batch_push(_, _, _, _, _)
\* The loop of batch_analyze from the i-th pair on.
batch_from(addresses, i, stats, results) ==
    IF i > Len(addresses) THEN [result |-> Ok(results), stats |-> stats]
    ELSE batch_push(addresses, i, stats, results, AnalyzeTable[addresses[i]])

\* results.push(self.analyze_pda(address, program_id)?), a being what
\* analyze_pda did.
batch_push(addresses, i, stats, results, a) ==
    IF ~a.result.ok THEN [result |-> Err(a.result.err), stats |-> stats]
    ELSE batch_from(addresses, i + 1, stats_after_analysis(stats, a),
                    Append(results, a.result.val))

\* batch_analyze that leaves the counters as they were.
batch_analyze_uncounted(addresses, stats) ==
    [result |-> batch_from(addresses, 1, stats, <<>>).result, stats |-> stats]

batch_analyze(addresses, stats) == batch_from(addresses, 1, stats, <<>>)

\* The pairs handed to batch_analyze: two that match a singleton string,
\* one that matches a sequential list, one without a match, and one of the
\* metadata program.
BatchPairs ==
    {<<TargetOf(TEST_PROGRAM_ID, <<SeedString("state")>>), TEST_PROGRAM_ID>>,
     <<TargetOf(TEST_PROGRAM_ID, <<SeedString("treasury")>>), TEST_PROGRAM_ID>>,
     <<TargetOf(TEST_PROGRAM_ID, <<SeedString("account"), SeedU64(4)>>), TEST_PROGRAM_ID>>,
     <<UNRELATED_ADDRESS, TEST_PROGRAM_ID>>,
     <<TargetOf(METAPLEX_PROGRAM_ID,
                <<SeedString("metadata"), SeedPubkey(METAPLEX_PROGRAM_ID),
                  SeedPubkey(Base58Table["So11111111111111111111111111111111111111112"]),
                  SeedString("edition")>>),
       METAPLEX_PROGRAM_ID>>}

\* The lists of at most n of these pairs.
BatchLists(n) == UNION {[1..len -> BatchPairs] : len \in 0..n}

\* The analyzer and the record of the call when batch_analyze returns b.
batch_returns(addresses, b) ==
    /\ pattern_stats' = b.stats
    /\ history' = Append(history,
           [op |-> "batch_analyze", addresses |-> addresses, result |-> b.result,
            stats_before |-> pattern_stats, stats_after |-> b.stats])

\* analyzer.batch_analyze(&addresses)
BatchAnalyze(addresses) ==
    /\ Len(history) < MaxCalls
    /\ \A i \in DOMAIN history : history[i].op # "batch_analyze"
    /\ batch_returns(addresses, batch_analyze(addresses, pattern_stats))
    /\ UNCHANGED <<cache, known_programs, api_vars, search, detector_vars>>

\* derive_pda as the first call on the analyzer.
DeriveFirst(program_id, seeds) ==
    /\ history = <<>>
    /\ DerivePda(program_id, seeds)

\* analyze_pda before the batch, on a fresh analyzer or after a derive_pda.
AnalyzeFirst(address, program_id) ==
    /\ \A i \in DOMAIN history : history[i].op = "derive_pda"
    /\ AnalyzePda(address, program_id)

\* clear_cache after the batch.
ClearAfterBatch ==
    /\ history # <<>>
    /\ history[Len(history)].op = "batch_analyze"
    /\ ClearCache

\* At most one derive_pda, then at most one analyze_pda, then one
\* batch_analyze and a clear_cache, on the same analyzer.
BatchNext ==
    \/ \E x \in DeriveInputs : DeriveFirst(x[1], x[2])
    \/ \E x \in AnalyzeInputs : AnalyzeFirst(x[1], x[2])
    \/ \E addresses \in BatchLists(MaxBatch) : BatchAnalyze(addresses)
    \/ ClearAfterBatch

BatchSpec == Init /\ [][BatchNext]_vars

(***************************************************************************)
(* The HTTP handlers around one shared analyzer                            *)
(* (crates/api/src/handlers.rs, crates/api/src/handlers_simple.rs)         *)
(*                                                                         *)
(* A request is a process: requests[r].pc is the place in its handler.     *)
(* Every .await of a handler ends a step, so other requests run between    *)
(* the steps.  server says which router serves: "handlers" stores every    *)
(* match in the database, "handlers_simple" has no database.               *)
(***************************************************************************)
NumRequests == 2

RequestIds == 1..NumRequests

AnalyzePdaRequest(address, program_id) ==
    [address |-> address, program_id |-> program_id]

\* Base58 texts of TEST_PROGRAM_ID, of the addresses "state" and
\* ("account", 4u64) derive under it, and of UNRELATED_ADDRESS.
TEST_PROGRAM_TEXT == "LX3EUdRUBUa3TbsYXLEUdj9J3prXkWXvLYSWyYyc2Jj"

STATE_TEXT == "8c7xM72xw4SLPAyKqyiY2XnQ9VjRzJ6gZE4CFDkdR2uu"

ACCOUNT_4_TEXT == "CiDwVBFgWV9E5MvXWoLgnEgn2hK7rJikbvfWavzAQz3"

UNRELATED_TEXT == "YEGAxog9gxiGXxo538aAQxq55XAebpFfwU72ZUxmSHm"

\* A text that is no base58 key.
MALFORMED_TEXT == "not-a-valid-pubkey"

\* The request bodies the clients send.
ApiRequests ==
    {[route |-> "analyze_pda",
      pdas  |-> <<AnalyzePdaRequest(STATE_TEXT, TEST_PROGRAM_TEXT)>>],
     [route |-> "analyze_pda",
      pdas  |-> <<AnalyzePdaRequest(UNRELATED_TEXT, TEST_PROGRAM_TEXT)>>],
     [route |-> "analyze_pda",
      pdas  |-> <<AnalyzePdaRequest(MALFORMED_TEXT, TEST_PROGRAM_TEXT)>>],
     [route |-> "analyze_pda",
      pdas  |-> <<AnalyzePdaRequest(STATE_TEXT, MALFORMED_TEXT)>>],
     [route |-> "batch_analyze_pda",
      pdas  |-> <<AnalyzePdaRequest(STATE_TEXT, TEST_PROGRAM_TEXT),
                  AnalyzePdaRequest(ACCOUNT_4_TEXT, TEST_PROGRAM_TEXT)>>],
     [route |-> "batch_analyze_pda",
      pdas  |-> <<AnalyzePdaRequest(STATE_TEXT, TEST_PROGRAM_TEXT),
                  AnalyzePdaRequest(MALFORMED_TEXT, TEST_PROGRAM_TEXT)>>],
     [route |-> "get_performance_metrics", pdas |-> <<>>]}

\* A request as its handler is entered.  analyze_pda parses before it takes
\* the lock; the other two handlers take the lock first.
new_request(body) ==
    [body        |-> body,
     pc          |-> IF body.route = "analyze_pda" THEN "parse" ELSE "acquire",
     item        |-> 1,
     parsed      |-> <<>>,
     seen        |-> << >>,
     result      |-> None,
     results     |-> <<>>,
     status      |-> "Pending",
     metrics     |-> None,
     derivations |-> 0,
     counted     |-> 0,
     stored      |-> 0]

\* tokio::sync::RwLock: write() is granted when nobody holds the lock,
\* read() when no writer holds it; dropping the guard releases it.
write_available_unguarded(l) == TRUE

write_available(l) == l.writer = 0 /\ l.readers = {}

read_available(l) == l.writer = 0

release(l, r) ==
    [writer |-> IF l.writer = r THEN 0 ELSE l.writer, readers |-> l.readers \ {r}]

\* Pubkey::from_str on the address and then on the program id of one
\* AnalyzePdaRequest, each with map_err(BadRequest)?.
parse_keys(q, address, program_id, next) ==
    IF ~address.ok \/ ~program_id.ok
    THEN [q EXCEPT !.status = "BadRequest", !.pc = "done"]
    ELSE [q EXCEPT !.parsed = <<address.val, program_id.val>>, !.pc = next]

RECURSIVE derivations_of(_)
\* The derivations one analyze_pda call has made.
derivations_of(trials) ==
    IF trials = <<>> THEN 0 ELSE Head(trials).tried + derivations_of(Tail(trials))

\* results.push(result), then the next item of the batch or the response.
push_result(q) ==
    IF q.item = Len(q.body.pdas)
    THEN [q EXCEPT !.results = Append(@, q.result), !.status = "Success", !.pc = "done"]
    ELSE [q EXCEPT !.results = Append(@, q.result), !.item = @ + 1, !.pc = "parse_item"]

\* What a handler does with the Option analyze_pda returned.
after_analysis(q, with_database) ==
    IF q.body.route = "analyze_pda"
    THEN IF ~q.result.some THEN [q EXCEPT !.status = "NotFound", !.pc = "done"]
         ELSE IF with_database THEN [q EXCEPT !.pc = "store"]
         ELSE [q EXCEPT !.results = <<q.result>>, !.status = "Success", !.pc = "done"]
    ELSE IF q.result.some /\ with_database THEN [q EXCEPT !.pc = "store"]
         ELSE push_result(q)

\* analyzer.analyze_pda(..) up to its match: the candidates are derived and
\* the analyzer's counters are in reach through the guard.
analysed(q, a, stats, with_database) ==
    IF ~a.result.ok THEN [q EXCEPT !.status = "InternalServerError", !.pc = "done"]
    ELSE IF a.result.val.some
    THEN [q EXCEPT !.result = a.result.val, !.seen = stats,
                   !.derivations = @ + derivations_of(a.trials), !.pc = "count"]
    ELSE after_analysis([q EXCEPT !.result = a.result.val,
                                  !.derivations = @ + derivations_of(a.trials)],
                        with_database)

\* A step of request r to q; a handler that returns drops its guard.
Becomes(r, q) ==
    /\ requests' = [requests EXCEPT ![r] = q]
    /\ lock' = IF q.pc = "done" THEN release(lock, r) ELSE lock

ApiInit ==
    /\ new_analyzer
    /\ server \in {"handlers", "handlers_simple"}
    /\ lock = [writer |-> 0, readers |-> {}]
    /\ requests \in [RequestIds -> {new_request(body) : body \in ApiRequests}]
    /\ no_detector

\* analyze_pda: the two texts are parsed before the lock is asked for.
ParseRequest(r) ==
    /\ requests[r].pc = "parse"
    /\ Becomes(r, parse_keys(requests[r],
                             Pubkey_from_str(requests[r].body.pdas[1].address),
                             Pubkey_from_str(requests[r].body.pdas[1].program_id),
                             "acquire"))
    /\ UNCHANGED <<cache, known_programs, pattern_stats, history, server, search, detector_vars>>

\* state.pda_analyzer.write().await
AcquireWrite(r) ==
    /\ requests[r].pc = "acquire"
    /\ requests[r].body.route # "get_performance_metrics"
    /\ write_available(lock)
    /\ lock' = [lock EXCEPT !.writer = r]
    /\ requests' = [requests EXCEPT ![r].pc =
           IF requests[r].body.route = "analyze_pda" THEN "analyze" ELSE "parse_item"]
    /\ UNCHANGED <<cache, known_programs, pattern_stats, history, server, search, detector_vars>>

\* batch_analyze_pda: the texts of the next item, parsed inside the loop.
ParseItem(r) ==
    /\ requests[r].pc = "parse_item"
    /\ Becomes(r, parse_keys(requests[r],
                             Pubkey_from_str(requests[r].body.pdas[requests[r].item].address),
                             Pubkey_from_str(requests[r].body.pdas[requests[r].item].program_id),
                             "analyze"))
    /\ UNCHANGED <<cache, known_programs, pattern_stats, history, server, search, detector_vars>>

\* analyzer.analyze_pda(&address, &program_id): the search.
Analyze(r) ==
    /\ requests[r].pc = "analyze"
    /\ Becomes(r, analysed(requests[r],
                           AnalyzeTable[<<requests[r].parsed[1], requests[r].parsed[2]>>],
                           pattern_stats, server = "handlers"))
    /\ UNCHANGED <<cache, known_programs, pattern_stats, history, server, search, detector_vars>>

\* analyze_pda's update_pattern_stats(&result.pattern) and its return.
Count(r) ==
    /\ requests[r].pc = "count"
    /\ pattern_stats' =
           update_pattern_stats(requests[r].seen, requests[r].result.val.pattern)
    /\ Becomes(r, after_analysis([requests[r] EXCEPT !.counted = @ + 1],
                                 server = "handlers"))
    /\ UNCHANGED <<cache, known_programs, history, server, search, detector_vars>>

\* state.database.store_pda_analysis(..).await; an Err is only logged.
StoreAnalysis(r) ==
    /\ requests[r].pc = "store"
    /\ Becomes(r, IF requests[r].body.route = "analyze_pda"
                  THEN [requests[r] EXCEPT !.stored = @ + 1, !.pc = "update_count"]
                  ELSE push_result([requests[r] EXCEPT !.stored = @ + 1]))
    /\ UNCHANGED <<cache, known_programs, pattern_stats, history, server, search, detector_vars>>

\* state.database.update_program_pda_count(..).await, then the response.
UpdateProgramCount(r) ==
    /\ requests[r].pc = "update_count"
    /\ Becomes(r, [requests[r] EXCEPT !.results = <<requests[r].result>>,
                                      !.status = "Success", !.pc = "done"])
    /\ UNCHANGED <<cache, known_programs, pattern_stats, history, server, search, detector_vars>>

\* state.pda_analyzer.read().await
AcquireRead(r) ==
    /\ requests[r].pc = "acquire"
    /\ requests[r].body.route = "get_performance_metrics"
    /\ read_available(lock)
    /\ lock' = [lock EXCEPT !.readers = @ \cup {r}]
    /\ requests' = [requests EXCEPT ![r].pc = "read"]
    /\ UNCHANGED <<cache, known_programs, pattern_stats, history, server, search, detector_vars>>

\* get_performance_metrics: cache_stats() and get_pattern_stats().
ReadMetrics(r) ==
    /\ requests[r].pc = "read"
    /\ Becomes(r, [requests[r] EXCEPT
                      !.metrics = Some([cache_stats   |-> cache_stats(cache),
                                        pattern_stats |-> pattern_stats]),
                      !.status = "Success", !.pc = "done"])
    /\ UNCHANGED <<cache, known_programs, pattern_stats, history, server, search, detector_vars>>

ApiNext ==
    \/ \E r \in RequestIds : ParseRequest(r)
    \/ \E r \in RequestIds : AcquireWrite(r)
    \/ \E r \in RequestIds : ParseItem(r)
    \/ \E r \in RequestIds : Analyze(r)
    \/ \E r \in RequestIds : Count(r)
    \/ \E r \in RequestIds : StoreAnalysis(r)
    \/ \E r \in RequestIds : UpdateProgramCount(r)
    \/ \E r \in RequestIds : AcquireRead(r)
    \/ \E r \in RequestIds : ReadMetrics(r)

ApiSpec == ApiInit /\ [][ApiNext]_vars

(***************************************************************************)
(* The pattern detector (crates/analyzer/src/patterns.rs)                  *)
(*                                                                         *)
(* An f64 percentage is the fraction [num, den] in lowest terms; NaN, the  *)
(* 0.0 / 0.0 of f64, is a value of its own.  The Uuid of a DetectedPattern *)
(* or PatternMatch is left out: it is fresh and nothing reads it.  The     *)
(* iteration order of a HashMap is any order of its keys.                  *)
(***************************************************************************)
MaxPdas == 5

RECURSIVE Gcd(_, _)
Gcd(a, b) == IF b = 0 THEN a ELSE Gcd(b, a % b)

\* n as f64 / d as f64 for d > 0.
Fraction(n, d) == [num |-> n \div Gcd(n, d), den |-> d \div Gcd(n, d)]

NaN == [num |-> 0, den |-> 0]

\* a < b on f64; false when either is NaN.
f64_lt(a, b) == a.den > 0 /\ b.den > 0 /\ a.num * b.den < b.num * a.den

SeedTemplate(name, type, description, is_variable) ==
    [name |-> name, seed_type |-> type, description |-> description,
     is_variable |-> is_variable]

RECURSIVE join(_, _)
\* Vec<&str>::join(sep)
join(parts, sep) ==
    IF parts = <<>> THEN ""
    ELSE IF Len(parts) = 1 THEN parts[1]
    ELSE parts[1] \o sep \o join(Tail(parts), sep)

create_pattern_signature(seeds) ==
    IF seeds = <<>> THEN "empty"
    ELSE join([i \in 1..Len(seeds) |-> seed_type(seeds[i])], ":")

create_seed_template(seeds) ==
    [i \in 1..Len(seeds) |->
        SeedTemplate("seed_" \o ToString(i - 1), seed_type(seeds[i]),
                     Some("Seed parameter " \o ToString(i - 1)), TRUE)]

calculate_confidence_uncapped(frequency, total_pdas) ==
    IF total_pdas = 0 THEN Fraction(0, 1) ELSE Fraction(frequency * 100, total_pdas)

\* (frequency as f64 / total_pdas as f64 * 100.0).min(95.0)
calculate_confidence(frequency, total_pdas) ==
    IF total_pdas = 0 THEN Fraction(0, 1)
    ELSE IF frequency * 100 <= 95 * total_pdas
    THEN Fraction(frequency * 100, total_pdas)
    ELSE Fraction(95, 1)

is_frequent_once(frequency) == frequency >= 1

\* if frequency >= 2: only patterns that appear at least twice.
is_frequent(frequency) == frequency >= 2

\* The records the first loop files under a signature, in list order.
seed_combinations(program_id, records, pattern_sig) ==
    SelectSeq(records, LAMBDA pda :
        /\ pda.program_id = program_id
        /\ create_pattern_signature(pda.seeds) = pattern_sig)

take_addresses_all(examples, n) == [i \in 1..Len(examples) |-> examples[i].address]

\* examples.iter().take(5).map(|p| p.address)
take_addresses(examples, n) ==
    [i \in 1..(IF Len(examples) < n THEN Len(examples) ELSE n) |-> examples[i].address]

DetectedPattern(program_id, pattern_sig, examples, total_pdas) ==
    [program_id        |-> program_id,
     pattern_signature |-> pattern_sig,
     seed_template     |-> create_seed_template(examples[1].seeds),
     frequency         |-> Len(examples),
     confidence        |-> calculate_confidence(Len(examples), total_pdas),
     examples          |-> take_addresses(examples, 5)]

\* The sort_by closure of detect_patterns says Less: a goes before b.
detected_before(a, b) ==
    \/ b.frequency < a.frequency
    \/ b.frequency = a.frequency /\ f64_lt(b.confidence, a.confidence)

RECURSIVE insert_detected(_, _)
insert_detected(sorted, x) ==
    IF sorted = <<>> THEN <<x>>
    ELSE IF detected_before(x, Head(sorted)) THEN <<x>> \o sorted
    ELSE <<Head(sorted)>> \o insert_detected(Tail(sorted), x)

sort_detected_skipped(s) == s

RECURSIVE sort_detected(_)
\* detected_patterns.sort_by(..): a stable sort.
sort_detected(s) ==
    IF s = <<>> THEN <<>>
    ELSE insert_detected(sort_detected(SubSeq(s, 1, Len(s) - 1)), s[Len(s)])

\* The second loop: one DetectedPattern per frequent signature, in the
\* order the HashMap pattern_frequency yields its keys.
frequent_patterns(program_id, records, order) ==
    Concat([k \in 1..Len(order) |->
        IF is_frequent(Len(seed_combinations(program_id, records, order[k])))
        THEN <<DetectedPattern(program_id, order[k],
                               seed_combinations(program_id, records, order[k]),
                               Len(records))>>
        ELSE <<>>])

detect_patterns(program_id, records, order) ==
    sort_detected(frequent_patterns(program_id, records, order))

\* seed_type_frequency[(index, seed_type)] of generate_pattern_suggestions:
\* the seeds of that type at that position in the records of the program.
seed_type_frequency(program_id, records, index, type) ==
    Len(SelectSeq(records, LAMBDA pda :
        /\ pda.program_id = program_id
        /\ index < Len(pda.seeds)
        /\ seed_type(pda.seeds[index + 1]) = type))

\* The keys of seed_type_frequency.
frequency_keys(program_id, records, types) ==
    {key \in {i - 1 : i \in UNION {DOMAIN records[n].seeds : n \in DOMAIN records}}
                 \X types :
        seed_type_frequency(program_id, records, key[1], key[2]) > 0}

\* seed_type_frequency.keys().map(|(index, _)| index).max() + 1
max_seed_count(keys) ==
    (CHOOSE index \in {key[1] : key \in keys} :
        \A key \in keys : key[1] <= index) + 1

\* type_counts of one seed_index: the types seen there and their counts.
type_counts_at(program_id, records, types, seed_index) ==
    [type \in {t \in types :
                 seed_type_frequency(program_id, records, seed_index, t) > 0} |->
        seed_type_frequency(program_id, records, seed_index, type)]

\* type_counts.values().max()
max_value(type_counts) ==
    CHOOSE c \in {type_counts[t] : t \in DOMAIN type_counts} :
        \A t \in DOMAIN type_counts : type_counts[t] <= c

RECURSIVE sum_values(_, _)
\* type_counts.values().sum()
sum_values(type_counts, types) ==
    IF types = {} THEN 0
    ELSE type_counts[CHOOSE t \in types : TRUE]
         + sum_values(type_counts, types \ {CHOOSE t \in types : TRUE})

calculate_type_confidence_capped(type_counts) ==
    IF max_value(type_counts) * 100 <= 95 * sum_values(type_counts, DOMAIN type_counts)
    THEN Fraction(max_value(type_counts) * 100, sum_values(type_counts, DOMAIN type_counts))
    ELSE Fraction(95, 1)

\* (*max_count as f64 / total as f64) * 100.0, 0.0 for a total of 0.
calculate_type_confidence(type_counts) ==
    IF sum_values(type_counts, DOMAIN type_counts) = 0 THEN Fraction(0, 1)
    ELSE Fraction(max_value(type_counts) * 100,
                  sum_values(type_counts, DOMAIN type_counts))

\* type_counts.iter().max_by_key(|(_, count)| *count): of the entries with
\* the greatest count, the one the map yields last.  order lists the types
\* in the order the map yields them.
most_common_type(type_counts, order) ==
    order[CHOOSE i \in DOMAIN order :
        /\ order[i] \in DOMAIN type_counts
        /\ type_counts[order[i]] = max_value(type_counts)
        /\ \A j \in DOMAIN order :
               (j > i /\ order[j] \in DOMAIN type_counts)
                   => type_counts[order[j]] < max_value(type_counts)]

PatternSuggestion(seed_index, type_counts, order) ==
    [seed_index     |-> seed_index,
     suggested_type |-> most_common_type(type_counts, order),
     frequency      |-> type_counts[most_common_type(type_counts, order)],
     confidence     |-> calculate_type_confidence(type_counts)]

\* generate_pattern_suggestions; orders[seed_index + 1] is the order in
\* which the map type_counts of that position yields its types.
generate_pattern_suggestions(program_id, records, types, orders) ==
    IF frequency_keys(program_id, records, types) = {} THEN <<>>
    ELSE [k \in 1..max_seed_count(frequency_keys(program_id, records, types)) |->
             PatternSuggestion(k - 1,
                               type_counts_at(program_id, records, types, k - 1),
                               orders[k])]

\* create_test_pda of the tests, with the n-th fresh address.
create_test_pda(program_id, seeds, n) ==
    [address |-> UniquePubkey(n), program_id |-> program_id, seeds |-> seeds,
     bump |-> 254, first_seen_slot |-> Some(12345),
     first_seen_transaction |-> Some("test_signature")]

OTHER_PROGRAM_ID == UniquePubkey(6)

\* The records of the tests: three of signature string, two of string:u64,
\* two of string:pubkey:u64, one of string:bytes, one of another program,
\* and one without seeds.
TestPdas ==
    <<create_test_pda(TEST_PROGRAM_ID, <<SeedString("metadata")>>, 11),
      create_test_pda(TEST_PROGRAM_ID, <<SeedString("config")>>, 12),
      create_test_pda(TEST_PROGRAM_ID, <<SeedString("vault")>>, 13),
      create_test_pda(TEST_PROGRAM_ID, <<SeedString("user"), SeedU64(123)>>, 14),
      create_test_pda(TEST_PROGRAM_ID, <<SeedString("account"), SeedU64(456)>>, 15),
      create_test_pda(TEST_PROGRAM_ID,
          <<SeedString("authority"), SeedPubkey(UniquePubkey(21)), SeedU64(1)>>, 16),
      create_test_pda(TEST_PROGRAM_ID,
          <<SeedString("authority"), SeedPubkey(UniquePubkey(22)), SeedU64(2)>>, 17),
      create_test_pda(TEST_PROGRAM_ID,
          <<SeedString("vault"), SeedBytes(<<1, 2, 3, 4>>)>>, 18),
      create_test_pda(OTHER_PROGRAM_ID, <<SeedString("metadata")>>, 19),
      create_test_pda(TEST_PROGRAM_ID, <<>>, 20)>>

RECURSIVE PdaLists(_, _)
\* The lists of at most n records of TestPdas from the k-th on, in the
\* order of TestPdas, a record any number of times.
PdaLists(n, k) ==
    IF n = 0 THEN {<<>>}
    ELSE {<<>>} \cup UNION {{<<TestPdas[i]>> \o rest : rest \in PdaLists(n - 1, i)} :
                            i \in k..Len(TestPdas)}

\* The keys of pattern_frequency: the signatures of the records of the program.
Signatures(program_id, records) ==
    {create_pattern_signature(records[i].seeds) :
        i \in {n \in DOMAIN records : records[n].program_id = program_id}}

\* The orders in which a HashMap can yield its keys.
IterationOrders(keys) ==
    {order \in [1..Cardinality(keys) -> keys] :
        \A i, j \in DOMAIN order : i # j => order[i] # order[j]}

\* A list of one signature longer than the examples a pattern keeps.
LongPdaList == [i \in 1..(MaxPdas + 1) |-> TestPdas[((i - 1) % 3) + 1]]

\* The seed lists of test_pattern_signature_creation.
SignatureInputs ==
    {<<>>,
     <<SeedString("test")>>,
     <<SeedString("prefix"), SeedPubkey(UniquePubkey(21)), SeedU64(123),
       SeedBytes(<<1, 2, 3>>)>>}

\* The type tags of the seeds of the records of a program.  The records of
\* TestPdas differ in type at the second position only, and a map of one
\* key has one order: one order of these tags per call stands for every
\* choice of an order per position.
SeedTypesOf(program_id, records) ==
    UNION {{seed_type(records[i].seeds[j]) : j \in DOMAIN records[i].seeds} :
           i \in {n \in DOMAIN records : records[n].program_id = program_id}}

SeedTypes == SeedTypesOf(TEST_PROGRAM_ID, TestPdas)

DetectorInit ==
    /\ new_analyzer
    /\ no_server
    /\ detector = new_detector
    /\ builtin_patterns = << >>
    /\ pdas \in PdaLists(MaxPdas, 1) \cup {LongPdaList}

\* detector.detect_patterns(&program_id, &pdas), its result cached.
DetectPatterns(program_id) ==
    /\ history = <<>>
    /\ \E order \in IterationOrders(Signatures(program_id, pdas)) :
        /\ detector' = [detector EXCEPT !.detected_patterns =
               (program_id :> detect_patterns(program_id, pdas, order)) @@ @]
        /\ history' = <<[op |-> "detect_patterns", program_id |-> program_id,
                         pdas |-> pdas, order |-> order,
                         result |-> Ok(detect_patterns(program_id, pdas, order))]>>
    /\ UNCHANGED <<cache, known_programs, pattern_stats, api_vars, search, builtin_patterns, pdas>>

\* detector.calculate_confidence(frequency, pdas.len())
CalculateConfidence(frequency) ==
    /\ history = <<>>
    /\ history' = <<[op |-> "calculate_confidence", frequency |-> frequency,
                     total_pdas |-> Len(pdas),
                     result |-> calculate_confidence(frequency, Len(pdas))]>>
    /\ UNCHANGED <<cache, known_programs, pattern_stats, api_vars, search, detector_vars>>

\* detector.generate_pattern_suggestions(&program_id, &pdas)
GeneratePatternSuggestions(program_id) ==
    /\ history = <<>>
    /\ \E order \in IterationOrders(SeedTypesOf(program_id, pdas)) :
           history' = <<[op |-> "generate_pattern_suggestions",
                         program_id |-> program_id, pdas |-> pdas, order |-> order,
                         result |-> generate_pattern_suggestions(
                             program_id, pdas, SeedTypes,
                             [k \in UNION {DOMAIN pdas[n].seeds : n \in DOMAIN pdas} |->
                                 order])]>>
    /\ UNCHANGED <<cache, known_programs, pattern_stats, api_vars, search, detector_vars>>

\* detector.create_pattern_signature(&seeds)
CreatePatternSignature(seeds) ==
    /\ history = <<>>
    /\ history' = <<[op |-> "create_pattern_signature", seeds |-> seeds,
                     result |-> create_pattern_signature(seeds)]>>
    /\ UNCHANGED <<cache, known_programs, pattern_stats, api_vars, search, detector_vars>>

DetectorNext ==
    \/ \E program_id \in {TEST_PROGRAM_ID, OTHER_PROGRAM_ID} : DetectPatterns(program_id)
    \/ \E frequency \in 0..(MaxPdas + 1) : CalculateConfidence(frequency)
    \/ \E program_id \in {TEST_PROGRAM_ID, OTHER_PROGRAM_ID} :
           GeneratePatternSuggestions(program_id)
    \/ \E seeds \in SignatureInputs : CreatePatternSignature(seeds)

DetectorSpec == DetectorInit /\ [][DetectorNext]_vars

(***************************************************************************)
(* The pattern registry (PatternRegistry, match_against_known_patterns)    *)
(*                                                                         *)
(* A PdaPatternTemplate is written without its Uuid.                       *)
(***************************************************************************)
MaxAdded == 2

PdaPatternTemplate(program_id, pattern_name, seeds_template, description) ==
    [program_id |-> program_id, pattern_name |-> pattern_name,
     seeds_template |-> seeds_template, description |-> description]

\* matches as f64 / seeds.len() as f64 * 100.0, None on a length mismatch.
calculate_pattern_match(seeds, template) ==
    IF Len(seeds) # Len(template) THEN None
    ELSE IF Len(seeds) = 0 THEN Some(NaN)
    ELSE Some(Fraction(
             Cardinality({i \in DOMAIN seeds : seed_type(seeds[i]) = template[i].seed_type})
                 * 100,
             Len(seeds)))

\* self.known_patterns.entry(pattern.program_id).or_insert_with(Vec::new).push(pattern)
add_known_pattern(known, pattern) ==
    IF pattern.program_id \in DOMAIN known
    THEN [known EXCEPT ![pattern.program_id] = Append(@, pattern)]
    ELSE known @@ (pattern.program_id :> <<pattern>>)

\* The sort_by closure of match_against_known_patterns says Less.
match_before(a, b) == f64_lt(b.match_score, a.match_score)

RECURSIVE insert_match(_, _)
insert_match(sorted, x) ==
    IF sorted = <<>> THEN <<x>>
    ELSE IF match_before(x, Head(sorted)) THEN <<x>> \o sorted
    ELSE <<Head(sorted)>> \o insert_match(Tail(sorted), x)

RECURSIVE sort_matches(_)
\* matches.sort_by(..): a stable sort.
sort_matches(s) ==
    IF s = <<>> THEN <<>>
    ELSE insert_match(sort_matches(SubSeq(s, 1, Len(s) - 1)), s[Len(s)])

\* The loop of match_against_known_patterns over one program's templates.
pattern_matches(patterns, pda) ==
    Concat([k \in 1..Len(patterns) |->
        IF calculate_pattern_match(pda.seeds, patterns[k].seeds_template).some
        THEN <<[pattern_name  |-> patterns[k].pattern_name,
                match_score   |->
                    calculate_pattern_match(pda.seeds, patterns[k].seeds_template).val,
                matched_seeds |-> pda.seeds]>>
        ELSE <<>>])

RECURSIVE registered(_, _)
\* The patterns registered under the given program ids, together.
registered(known, programs) ==
    IF programs = {} THEN <<>>
    ELSE known[CHOOSE p \in programs : TRUE]
         \o registered(known, programs \ {CHOOSE p \in programs : TRUE})

match_against_known_patterns_of_any_program(known, pda) ==
    sort_matches(pattern_matches(registered(known, DOMAIN known), pda))

match_against_known_patterns(known, pda) ==
    IF pda.program_id \in DOMAIN known
    THEN sort_matches(pattern_matches(known[pda.program_id], pda))
    ELSE <<>>

\* The two patterns register_builtin_patterns adds.
builtin_pattern_list ==
    <<PdaPatternTemplate(SPL_TOKEN_PROGRAM, "Token Account",
          <<SeedTemplate("owner", "pubkey", Some("Token account owner"), TRUE),
            SeedTemplate("mint", "pubkey", Some("Token mint"), TRUE)>>,
          Some("Standard SPL token associated account")),
      PdaPatternTemplate(METAPLEX_PROGRAM_ID, "Metadata Account",
          <<SeedTemplate("prefix", "string", Some("Metadata prefix"), FALSE),
            SeedTemplate("program_id", "pubkey", Some("Metadata program ID"), FALSE),
            SeedTemplate("mint", "pubkey", Some("NFT mint"), TRUE)>>,
          Some("NFT metadata account"))>>

\* The patterns handed to add_pattern: those of the tests, a second
\* template of their length, a template without seeds, and one under a
\* program id that has a built-in pattern.
CustomPatterns ==
    {PdaPatternTemplate(TEST_PROGRAM_ID, "Custom Pattern",
         <<SeedTemplate("custom", "string", Some("Custom seed"), TRUE)>>,
         Some("A custom pattern")),
     PdaPatternTemplate(TEST_PROGRAM_ID, "Two Strings",
         <<SeedTemplate("prefix", "string", None, FALSE),
           SeedTemplate("name", "string", None, TRUE)>>, None),
     PdaPatternTemplate(TEST_PROGRAM_ID, "Prefix Id",
         <<SeedTemplate("prefix", "string", None, FALSE),
           SeedTemplate("id", "u64", None, TRUE)>>, None),
     PdaPatternTemplate(TEST_PROGRAM_ID, "No Seeds", <<>>, None),
     PdaPatternTemplate(METAPLEX_PROGRAM_ID, "Edition Marker",
         <<SeedTemplate("prefix", "string", None, FALSE),
           SeedTemplate("program_id", "pubkey", None, FALSE),
           SeedTemplate("edition", "string", None, TRUE)>>, None)}

\* The records handed to match_pda.
MatchInputs ==
    {create_test_pda(TEST_PROGRAM_ID, <<SeedString("custom_value")>>, 31),
     create_test_pda(TEST_PROGRAM_ID, <<SeedString("test"), SeedU64(12345)>>, 32),
     create_test_pda(TEST_PROGRAM_ID, <<SeedString("test"), SeedString("wrong_type")>>, 33),
     create_test_pda(TEST_PROGRAM_ID, <<>>, 34),
     create_test_pda(METAPLEX_PROGRAM_ID,
         <<SeedString("metadata"), SeedPubkey(METAPLEX_PROGRAM_ID),
           SeedPubkey(UniquePubkey(21))>>, 35),
     create_test_pda(OTHER_PROGRAM_ID, <<SeedString("custom_value")>>, 36)}

\* PatternRegistry::new
RegistryInit ==
    /\ new_analyzer
    /\ no_server
    /\ detector = [known_patterns |->
                       add_known_pattern(add_known_pattern(<< >>, builtin_pattern_list[1]),
                                         builtin_pattern_list[2]),
                   detected_patterns |-> << >>]
    /\ builtin_patterns =
           add_known_pattern(add_known_pattern(<< >>, builtin_pattern_list[1]),
                             builtin_pattern_list[2])
    /\ pdas = <<>>

\* registry.add_pattern(pattern)
AddPattern(pattern) ==
    /\ history = <<>>
    /\ Len(registered(detector.known_patterns, DOMAIN detector.known_patterns)) < Len(builtin_pattern_list) + MaxAdded
    /\ detector' = [detector EXCEPT !.known_patterns = add_known_pattern(@, pattern)]
    /\ builtin_patterns' = add_known_pattern(builtin_patterns, pattern)
    /\ UNCHANGED <<cache, known_programs, pattern_stats, history, api_vars, search, pdas>>

\* registry.match_pda(&pda)
MatchPda(pda) ==
    /\ history = <<>>
    /\ history' = <<[op |-> "match_pda", pda |-> pda,
                     known |-> detector.known_patterns,
                     result |-> match_against_known_patterns(detector.known_patterns, pda)]>>
    /\ UNCHANGED <<cache, known_programs, pattern_stats, api_vars, search, detector_vars>>

\* detector.calculate_pattern_match(&seeds, &template)
CalculatePatternMatch(seeds, template) ==
    /\ history = <<>>
    /\ history' = <<[op |-> "calculate_pattern_match", seeds |-> seeds,
                     template |-> template,
                     result |-> calculate_pattern_match(seeds, template)]>>
    /\ UNCHANGED <<cache, known_programs, pattern_stats, api_vars, search, detector_vars>>

RegistryNext ==
    \/ \E pattern \in CustomPatterns : AddPattern(pattern)
    \/ \E pda \in MatchInputs : MatchPda(pda)
    \/ \E pda \in MatchInputs, pattern \in CustomPatterns :
           CalculatePatternMatch(pda.seeds, pattern.seeds_template)

RegistrySpec == RegistryInit /\ [][RegistryNext]_vars

(***************************************************************************)
(* Properties of derive_pda and verify_pda                                 *)
(***************************************************************************)
\* The positions of the calls of an operation in the history.
Calls(op) == {i \in 1..Len(history) : history[i].op = op}

\* The cache key of a derive_pda call: the program id and the seed bytes.
CacheKey(i) == history[i].key

ClearedBetween(i, j) == \E k \in Calls("clear_cache") : i < k /\ k < j

\* The uncached derivation of a seed list.
Uncached(key) == find_program_address_of(key[2], key[1])

SameOutcome(r1, r2) ==
    /\ r1.ok = r2.ok
    /\ r1.ok => r1.val.address = r2.val.address /\ r1.val.bump = r2.val.bump

\* C1: any two derive_pda calls with the same program id and the same seed
\* list, whatever happens between them, give the same address and bump (or
\* both fail).
C1_Determinism ==
    \A i \in Calls("derive_pda") : \A j \in Calls("derive_pda") :
        (history[i].program_id = history[j].program_id /\ history[i].seeds = history[j].seeds)
            => SameOutcome(history[i].result, history[j].result)

\* Two successful derivations of one seed list with another call between them.
C1_Witness ==
    \E i \in Calls("derive_pda") : \E j \in Calls("derive_pda") :
        /\ j = i + 2
        /\ history[i].program_id = history[j].program_id
        /\ history[i].seeds = history[j].seeds
        /\ history[i].result.ok /\ history[j].result.ok

\* Addresses to verify against: those handed to verify_pda and the system
\* program's.
KnownAddresses == {x[1] : x \in VerifyInputs} \cup {SYSTEM_PROGRAM_ID}

\* C2: for a seed list that derives, verify_pda answers true for the address
\* derive_pda returns and false, not an error, for every other address.
C2_VerificationSoundness ==
    /\ \A i \in Calls("derive_pda") :
          history[i].result.ok =>
            LET p == history[i].program_id
                s == history[i].seeds
                derived == history[i].result.val.address
            IN  \A a \in KnownAddresses \cup {derived} :
                    verify_pda(a, p, s) = Ok(a = derived)
    /\ \A i \in Calls("verify_pda") :
          LET u == Uncached(<<history[i].program_id, seed_bytes_of(history[i].seeds)>>) IN
          u.some => /\ history[i].result.ok
                    /\ history[i].result.val <=> (history[i].address = u.val.address)

\* A derivation, then its address verified true and another address false.
C2_Witness ==
    \E i \in Calls("derive_pda") : \E j \in Calls("verify_pda") : \E k \in Calls("verify_pda") :
        /\ history[i].result.ok
        /\ history[j].program_id = history[i].program_id /\ history[j].seeds = history[i].seeds
        /\ history[k].program_id = history[i].program_id /\ history[k].seeds = history[i].seeds
        /\ history[j].address = history[i].result.val.address
        /\ history[j].result.ok /\ history[j].result.val
        /\ history[k].result.ok /\ ~history[k].result.val

\* The digest of absorbed seeds under each bump.
BumpDigests(hs, tail) == [b \in 0..255 |-> DigestWith(tail, hs, b)]

\* The digest of every input seed list under every bump.
DigestTable ==
    [x \in DeriveInputs |-> BumpDigests(AbsorbAll(7, seed_bytes_of(x[2])), TailMap(x[1]))]

\* The bumps of an input seed list whose digest is off the curve.
OffCurveBumps ==
    [x \in DeriveInputs |-> {b \in 0..255 : ~OnCurve(DigestTable[x][b])}]

\* C3: derive_pda returns the highest bump of 255..0 whose digest is off the
\* curve, with that digest as the address; it fails, with the derivation
\* failure as a value, exactly when no bump has an off-curve digest.
C3_CanonicalBump ==
    \A i \in Calls("derive_pda") :
        LET p   == history[i].program_id
            off == OffCurveBumps[<<p, history[i].seeds>>]
            r   == history[i].result
        IN  /\ r.ok <=> off # {}
            /\ ~r.ok => r.err = "PdaDerivationFailed"
            /\ r.ok => /\ r.val.bump \in off
                       /\ \A b \in off : b <= r.val.bump
                       /\ r.val.address =
                            DigestPubkey(DigestTable[<<p, history[i].seeds>>][r.val.bump])

\* A derivation that fails and one whose canonical bump is below 255.
C3_Witness ==
    \E i \in Calls("derive_pda") : \E j \in Calls("derive_pda") :
        /\ ~history[i].result.ok
        /\ history[j].result.ok /\ history[j].result.val.bump < 255

\* No earlier derive_pda call of the same key since the cache was last cleared.
FirstLookup(i) ==
    ~\E j \in Calls("derive_pda") :
        j < i /\ CacheKey(j) = CacheKey(i) /\ ~ClearedBetween(j, i)

\* C4: a derive_pda call returns the address and bump of the uncached
\* derivation of its key, and the total of cache_stats grows by one on the
\* first lookup of a key and not at all on a repeated one.
C4_CacheTransparency ==
    \A i \in Calls("derive_pda") :
        LET u == Uncached(CacheKey(i))
            r == history[i].result
        IN  /\ r.ok = u.some
            /\ r.ok => r.val.address = u.val.address /\ r.val.bump = u.val.bump
            /\ history[i].stats_after.total =
                 history[i].stats_before.total + (IF FirstLookup(i) THEN 1 ELSE 0)

\* A first lookup that adds an entry and a repeated lookup that adds none.
C4_Witness ==
    \E i \in Calls("derive_pda") : \E j \in Calls("derive_pda") :
        /\ i < j /\ CacheKey(i) = CacheKey(j) /\ ~ClearedBetween(i, j)
        /\ history[i].stats_after.total = history[i].stats_before.total + 1
        /\ history[j].stats_after.total = history[j].stats_before.total
        /\ history[j].result.ok

\* C5: every successful derive_pda result carries the program id and the seed
\* list of its own call.
C5_ResultEchoesArguments ==
    \A i \in Calls("derive_pda") :
        history[i].result.ok =>
            /\ history[i].result.val.program_id = history[i].program_id
            /\ history[i].result.val.seeds = history[i].seeds

\* C6: once derive_pda has failed for a key, a later call with that key
\* returns the failure from the cache without searching the bumps again.
C6_NegativeMemoization ==
    \A i \in Calls("derive_pda") : \A j \in Calls("derive_pda") :
        (i < j /\ CacheKey(i) = CacheKey(j) /\ ~ClearedBetween(i, j) /\ ~history[i].result.ok)
            => /\ history[i].stats_after.total = history[i].stats_before.total + 1
               /\ ~history[j].result.ok
               /\ ~history[j].searched

(***************************************************************************)
(* Properties of analyze_pda                                               *)
(***************************************************************************)
\* The priority order of the families: wallet/program/mint, metadata,
\* singleton string, authority, sequential, complex.
PriorityOrder ==
    <<"associated_token_account", "metaplex", "string_singleton",
      "authority", "sequential", "complex">>

\* A family is tried for a program id: the first two only for their programs.
Applies(family, program_id) ==
    CASE family = "associated_token_account" -> program_id = ATA_PROGRAM_ID
      [] family = "metaplex"                 -> program_id = METAPLEX_PROGRAM_ID
      [] OTHER                               -> TRUE

\* The number of candidates a family has to evaluate to be exhausted.
FullCount(family, program_id) ==
    IF Applies(family, program_id) THEN Len(CandidateTable[program_id][family]) ELSE 0

\* For every analysed pair and family, the positions of the candidates
\* that derive the target address.
HitTable ==
    [x \in AnalyzeInputs |-> [f \in FamilyNames |->
        IF ~Applies(f, x[2]) THEN {}
        ELSE {i \in 1..Len(CandidateTable[x[2]][f]) :
                 LET d == try_find_program_address(CandidateTable[x[2]][f][i].raw, x[2])
                 IN  d.some /\ d.val.address = x[1]}]]

Hits(i, family) == HitTable[<<history[i].address, history[i].program_id>>][family]

Matched(i) == history[i].result.ok /\ history[i].result.val.some

\* C7: analyze_pda tries the families in the priority order, each to
\* exhaustion before the next; the result comes from the earliest family with
\* a candidate deriving the target, from its first such candidate, and no
\* candidate after the match is evaluated.
C7_FamilyPriority ==
    \A i \in Calls("analyze_pda") :
        LET trials == history[i].trials
            n      == Len(trials)
            p      == history[i].program_id
        IN  /\ n \in 1..Len(PriorityOrder)
            /\ \A k \in 1..n : trials[k].family = PriorityOrder[k]
            /\ \A k \in 1..(n - 1) :
                  /\ Hits(i, PriorityOrder[k]) = {}
                  /\ trials[k].tried = FullCount(PriorityOrder[k], p)
            /\ IF \E k \in 1..Len(PriorityOrder) : Hits(i, PriorityOrder[k]) # {}
               THEN LET f     == PriorityOrder[n]
                        first == CHOOSE h \in Hits(i, f) : \A j \in Hits(i, f) : h <= j
                    IN  /\ Hits(i, f) # {}
                        /\ Matched(i)
                        /\ trials[n].tried = first
                        /\ history[i].result.val.val.pda_info.seeds =
                             CandidateTable[p][f][first].seeds
               ELSE /\ n = Len(PriorityOrder)
                    /\ history[i].result = Ok(None)

\* A match of the third or a later family while a family after it also has
\* a candidate deriving the target.
C7_Witness ==
    \E i \in Calls("analyze_pda") :
        /\ Matched(i)
        /\ Len(history[i].trials) >= 3
        /\ \E k \in (Len(history[i].trials) + 1)..Len(PriorityOrder) :
              Hits(i, PriorityOrder[k]) # {}

\* The derivations of the seed lists analyze_pda reports on the analysed pairs.
Rederived ==
    [k \in {<<x[2], AnalyzeTable[x].result.val.val.pda_info.seeds>> :
               x \in {y \in AnalyzeInputs : AnalyzeTable[y].result.ok
                                              /\ AnalyzeTable[y].result.val.some}} |->
        try_find_program_address(seed_bytes_of(k[2]), k[1])]

\* Deriving from the byte encoding of a seed list under a program id.
Rederive(program_id, seeds) ==
    IF <<program_id, seeds>> \in DOMAIN Rederived
    THEN Rederived[<<program_id, seeds>>]
    ELSE try_find_program_address(seed_bytes_of(seeds), program_id)

\* C8: a result of analyze_pda carries the target address and the given
\* program id, and deriving from the byte encoding of its reported seeds
\* under that program id gives the target address and the reported bump.
C8_ResultSoundness ==
    \A i \in Calls("analyze_pda") :
        Matched(i) =>
            LET info == history[i].result.val.val.pda_info
                d    == Rederive(history[i].program_id, info.seeds)
            IN  /\ info.address = history[i].address
                /\ info.program_id = history[i].program_id
                /\ d.some
                /\ d.val.address = history[i].address
                /\ d.val.bump = info.bump

\* A sequential match and an authority match with a numeric seed.
C8_Witness ==
    \E i \in Calls("analyze_pda") : \E j \in Calls("analyze_pda") :
        /\ Matched(i) /\ history[i].result.val.val.pattern = "Sequential"
        /\ Matched(j) /\ history[j].result.val.val.pattern = "PubkeyU64"
        /\ history[j].result.val.val.pda_info.bump < 255

\* The address and bump each string of the singleton catalogue derives alone.
SingletonDerived ==
    [p \in ProgramIds |-> [k \in 1..Len(common_strings) |->
        try_find_program_address(<<str_as_bytes(common_strings[k])>>, p)]]

\* For every analysed pair, the catalogue strings that derive its address.
SingletonSources ==
    [x \in AnalyzeInputs |->
        {k \in 1..Len(common_strings) :
            /\ SingletonDerived[x[2]][k].some
            /\ SingletonDerived[x[2]][k].val.address = x[1]}]

\* C9: analyze_pda on the address derived from one string of the singleton
\* catalogue under a program id returns a match tagged StringSingleton, with
\* that string as its only seed and the bump derive_pda returns for it.
C9_SingletonCompleteness ==
    \A i \in Calls("analyze_pda") :
        \A k \in SingletonSources[<<history[i].address, history[i].program_id>>] :
            LET p     == history[i].program_id
                seeds == <<SeedString(common_strings[k])>>
            IN      /\ Matched(i)
                    /\ history[i].result.val.val.pattern = "StringSingleton"
                    /\ history[i].result.val.val.pda_info.seeds = seeds
                    /\ derive_pda(cache, p, seeds).result.ok
                    /\ derive_pda(cache, p, seeds).result.val.address = history[i].address
                    /\ history[i].result.val.val.pda_info.bump =
                         derive_pda(cache, p, seeds).result.val.bump

\* derive_pda of the seed "state", then analyze_pda of the address it returned.
C9_Witness ==
    \E i \in Calls("derive_pda") : \E j \in Calls("analyze_pda") :
        /\ i < j
        /\ history[i].seeds = <<SeedString("state")>>
        /\ history[i].result.ok
        /\ history[j].program_id = history[i].program_id
        /\ history[j].address = history[i].result.val.address
        /\ Matched(j)
        /\ history[j].result.val.val.pda_info.bump = history[i].result.val.bump

\* C10: analyze_pda never returns an error; when no candidate of any family
\* derives the target it returns None, and it returns None only after every
\* family that applies to the program id has evaluated all its candidates.
C10_NoMatchIsNotAnError ==
    \A i \in Calls("analyze_pda") :
        LET none == \A k \in 1..Len(PriorityOrder) : Hits(i, PriorityOrder[k]) = {}
        IN  /\ history[i].result.ok
            /\ none => history[i].result = Ok(None)
            /\ history[i].result = Ok(None) =>
                  /\ none
                  /\ \A k \in 1..Len(PriorityOrder) :
                        Applies(PriorityOrder[k], history[i].program_id) =>
                            \E t \in 1..Len(history[i].trials) :
                                /\ history[i].trials[t].family = PriorityOrder[k]
                                /\ history[i].trials[t].tried =
                                     Len(CandidateTable[history[i].program_id][PriorityOrder[k]])

\* analyze_pda of an address no candidate derives, answered None.
C10_Witness ==
    \E i \in Calls("analyze_pda") :
        /\ history[i].result = Ok(None)
        /\ \A k \in 1..Len(PriorityOrder) : Hits(i, PriorityOrder[k]) = {}
        /\ Len(history[i].trials) = Len(PriorityOrder)

(***************************************************************************)
(* Properties of the match counters                                        *)
(***************************************************************************)
\* The counter of a pattern tag, 0 while the tag has no entry.
CounterOf(stats, tag) == IF tag \in DOMAIN stats THEN stats[tag] ELSE 0

RECURSIVE SumOver(_, _)
SumOver(stats, tags) ==
    IF tags = {} THEN 0
    ELSE LET t == CHOOSE x \in tags : TRUE IN stats[t] + SumOver(stats, tags \ {t})

\* The sum of all counters.
CounterSum(stats) == SumOver(stats, DOMAIN stats)

\* C11: an analyze_pda call that returns a match adds one to the counter of
\* the returned pattern tag and changes no other counter, a call that returns
\* None changes none; the counters sum to the number of calls that matched.
C11_MatchCounters ==
    /\ \A i \in Calls("analyze_pda") :
          LET before == history[i].stats_before
              after  == history[i].stats_after
          IN  IF Matched(i)
              THEN LET tag == history[i].result.val.val.pattern IN
                   /\ DOMAIN after = DOMAIN before \cup {tag}
                   /\ after[tag] = CounterOf(before, tag) + 1
                   /\ \A t \in DOMAIN before : t # tag => after[t] = before[t]
              ELSE after = before
    /\ CounterSum(pattern_stats) = Cardinality({i \in Calls("analyze_pda") : Matched(i)})
    /\ \A i \in Calls("analyze_pda") :
          \/ \E j \in Calls("analyze_pda") : j > i
          \/ history[i].stats_after = pattern_stats
    /\ \A i \in Calls("analyze_pda") : \A j \in Calls("analyze_pda") :
          (i < j /\ ~\E k \in Calls("analyze_pda") : i < k /\ k < j)
              => history[j].stats_before = history[i].stats_after

\* Two matches of one pattern tag and a call that returned None.
C11_Witness ==
    \E i \in Calls("analyze_pda") : \E j \in Calls("analyze_pda") :
    \E k \in Calls("analyze_pda") :
        /\ i < j
        /\ Matched(i) /\ Matched(j) /\ ~Matched(k)
        /\ history[i].result.val.val.pattern = history[j].result.val.val.pattern
        /\ history[j].stats_after[history[j].result.val.val.pattern] = 2

(***************************************************************************)
(* Properties of the HTTP handlers                                         *)
(***************************************************************************)
\* A body with a text that Pubkey::from_str rejects.
HasMalformedText(body) ==
    \E i \in 1..Len(body.pdas) :
        \/ ~Pubkey_from_str(body.pdas[i].address).ok
        \/ ~Pubkey_from_str(body.pdas[i].program_id).ok

\* C12: a request with a malformed address or program-id text, single or
\* batch, is answered with BadRequest and has by then made no derivation and
\* raised no counter.
C12_InvalidInputRejectedBeforeSearch ==
    \A r \in DOMAIN requests :
        (requests[r].pc = "done" /\ HasMalformedText(requests[r].body)) =>
            /\ requests[r].status = "BadRequest"
            /\ requests[r].derivations = 0
            /\ requests[r].counted = 0
            /\ requests[r].stored = 0

\* The part of C12 that holds: the single-address handler.
C12_SingleRequestRejectedBeforeSearch ==
    \A r \in DOMAIN requests :
        (/\ requests[r].pc = "done"
         /\ requests[r].body.route = "analyze_pda"
         /\ HasMalformedText(requests[r].body)) =>
            /\ requests[r].status = "BadRequest"
            /\ requests[r].derivations = 0
            /\ requests[r].counted = 0
            /\ requests[r].stored = 0

(***************************************************************************)
(* Properties of the pattern detector                                      *)
(***************************************************************************)
\* The positions of a record list that hold a record of the program with
\* the given signature: the group of that signature.
Group(records, program_id, pattern_sig) ==
    {i \in DOMAIN records :
        /\ records[i].program_id = program_id
        /\ create_pattern_signature(records[i].seeds) = pattern_sig}

\* The positions that hold a record of the program.
Matching(records, program_id) ==
    {i \in DOMAIN records : records[i].program_id = program_id}

Reported(out, pattern_sig) ==
    {k \in DOMAIN out : out[k].pattern_signature = pattern_sig}

\* C14: on a list with signature string:pubkey:u64 twice and string:bytes
\* once, detect_patterns returns two patterns: string:pubkey:u64 with
\* frequency 2 and string:bytes with frequency 1.
C14_OnceSeenSignatureReported ==
    \A c \in Calls("detect_patterns") :
        (/\ Len(history[c].pdas) = 3
         /\ Cardinality(Group(history[c].pdas, history[c].program_id, "string:pubkey:u64")) = 2
         /\ Cardinality(Group(history[c].pdas, history[c].program_id, "string:bytes")) = 1)
        => /\ Len(history[c].result.val) = 2
           /\ \E k \in Reported(history[c].result.val, "string:pubkey:u64") :
                  history[c].result.val[k].frequency = 2
           /\ \E k \in Reported(history[c].result.val, "string:bytes") :
                  history[c].result.val[k].frequency = 1

\* value is min(frequency / total * 100, 95) for total > 0, and 0 for
\* total = 0.
IsCappedShare(value, frequency, total) ==
    /\ value.den > 0
    /\ value.num <= 95 * value.den
    /\ IF total = 0 THEN value.num = 0
       ELSE IF frequency * 100 <= 95 * total
       THEN value.num * total = frequency * 100 * value.den
       ELSE value.num = 95 * value.den

\* C15: the confidence of every pattern detect_patterns emits is
\* min(frequency / total * 100, 95), frequency the size of the pattern's
\* group and total the length of the record list, so it is at most 95;
\* calculate_confidence gives 0 when total is 0.
C15_ConfidenceBound ==
    /\ \A c \in Calls("detect_patterns") :
           \A k \in DOMAIN history[c].result.val :
               IsCappedShare(history[c].result.val[k].confidence,
                             Cardinality(Group(history[c].pdas, history[c].program_id,
                                               history[c].result.val[k].pattern_signature)),
                             Len(history[c].pdas))
    /\ \A c \in Calls("calculate_confidence") :
           IsCappedShare(history[c].result, history[c].frequency, history[c].total_pdas)

\* A pattern that holds every record of the list is reported with 95, and
\* not with 100.
C15_Witness ==
    \E c \in Calls("detect_patterns") :
        /\ Len(history[c].pdas) >= 2
        /\ Len(history[c].result.val) = 1
        /\ history[c].result.val[1].frequency = Len(history[c].pdas)
        /\ history[c].result.val[1].confidence = [num |-> 95, den |-> 1]

\* C16: the list detect_patterns returns is in descending order of
\* frequency, and of confidence among equal frequencies; with three records
\* of signature string and two of string:u64 the string pattern is first.
C16_Ranking ==
    \A c \in Calls("detect_patterns") :
        /\ \A i, j \in DOMAIN history[c].result.val :
               i < j =>
                   /\ history[c].result.val[i].frequency >= history[c].result.val[j].frequency
                   /\ history[c].result.val[i].frequency = history[c].result.val[j].frequency
                      => ~f64_lt(history[c].result.val[i].confidence,
                                 history[c].result.val[j].confidence)
        /\ (/\ Cardinality(Group(history[c].pdas, history[c].program_id, "string")) = 3
            /\ Cardinality(Group(history[c].pdas, history[c].program_id, "string:u64")) = 2)
           => /\ Len(history[c].result.val) = 2
              /\ history[c].result.val[1].pattern_signature = "string"
              /\ history[c].result.val[2].pattern_signature = "string:u64"

\* The map yields string:u64 before string, and string is still first.
C16_Witness ==
    \E c \in Calls("detect_patterns") :
        /\ Cardinality(Group(history[c].pdas, history[c].program_id, "string")) = 3
        /\ Cardinality(Group(history[c].pdas, history[c].program_id, "string:u64")) = 2
        /\ \E i, j \in DOMAIN history[c].order :
               /\ i < j
               /\ history[c].order[i] = "string:u64"
               /\ history[c].order[j] = "string"
        /\ history[c].result.val[1].pattern_signature = "string"
        /\ history[c].result.val[1].frequency = 3

(***************************************************************************)
(* Properties of the pattern registry                                      *)
(***************************************************************************)
\* The positions at which the observed type is the template's type.
MatchingPositions(seeds, template) ==
    {i \in DOMAIN seeds : seed_type(seeds[i]) = template[i].seed_type}

\* score is matching / positions * 100.
IsMatchShare(score, matching, positions) ==
    /\ score.den > 0
    /\ score.num * positions = matching * 100 * score.den

\* C17: for a template and a seed list of equal length the score is the
\* share of positions with the declared type, times 100, so a list that
\* matches at every position scores exactly 100; for unequal lengths there
\* is no score.
C17_RegistryScoring ==
    \A c \in Calls("calculate_pattern_match") :
        IF Len(history[c].seeds) # Len(history[c].template)
        THEN history[c].result = None
        ELSE /\ history[c].result.some
             /\ IsMatchShare(history[c].result.val,
                             Cardinality(MatchingPositions(history[c].seeds, history[c].template)),
                             Len(history[c].seeds))
             /\ MatchingPositions(history[c].seeds, history[c].template) = DOMAIN history[c].seeds
                => history[c].result.val = [num |-> 100, den |-> 1]

\* The part of C17 that holds: lists with at least one seed.
C17_ScoringOfNonEmptyLists ==
    \A c \in Calls("calculate_pattern_match") :
        IF Len(history[c].seeds) # Len(history[c].template)
        THEN history[c].result = None
        ELSE /\ history[c].result.some
             /\ Len(history[c].seeds) > 0 =>
                    IsMatchShare(history[c].result.val,
                                 Cardinality(MatchingPositions(history[c].seeds,
                                                               history[c].template)),
                                 Len(history[c].seeds))

\* The templates of a program a record's seed list is as long as.
Comparable(known, pda) ==
    IF pda.program_id \in DOMAIN known
    THEN {k \in DOMAIN known[pda.program_id] :
             Len(known[pda.program_id][k].seeds_template) = Len(pda.seeds)}
    ELSE {}

\* C18: match_pda returns one entry for each template registered under
\* the record's program id whose length is the record's seed count, no
\* entry for a template of another program id, in descending order of score;
\* built-in and added templates alike, several per program id.
C18_RegistryMatching ==
    \A c \in Calls("match_pda") :
        LET h == history[c] IN
        /\ Len(h.result) = Cardinality(Comparable(h.known, h.pda))
        /\ \A e \in DOMAIN h.result :
               /\ h.result[e].matched_seeds = h.pda.seeds
               /\ Cardinality({d \in DOMAIN h.result :
                                  h.result[d].pattern_name = h.result[e].pattern_name})
                  = Cardinality({k \in Comparable(h.known, h.pda) :
                                  h.known[h.pda.program_id][k].pattern_name =
                                  h.result[e].pattern_name})
        /\ \A i, j \in DOMAIN h.result :
               i < j => ~f64_lt(h.result[i].match_score, h.result[j].match_score)

\* Two templates of the record's length were added, the lower scoring one
\* first; the higher scoring one is returned first, and the built-in
\* templates of other program ids are not returned.
C18_Witness ==
    \E c \in Calls("match_pda") :
        /\ Len(history[c].result) = 2
        /\ history[c].known[history[c].pda.program_id][1].pattern_name = "Two Strings"
        /\ history[c].result[1].pattern_name = "Prefix Id"
        /\ history[c].result[1].match_score = [num |-> 100, den |-> 1]
        /\ history[c].result[2].match_score = [num |-> 50, den |-> 1]
        /\ SPL_TOKEN_PROGRAM \in DOMAIN history[c].known

(***************************************************************************)
(* Properties of the shared analyzer under concurrent requests             *)
(***************************************************************************)
\* The places of a handler between taking the write guard and dropping it,
\* and the place where the read guard is held.
WriteSection == {"parse_item", "analyze", "count", "store", "update_count"}

ReadSection == {"read"}

\* The analyses of a request that returned the tag.
TagCount(results, tag) ==
    Cardinality({i \in DOMAIN results : results[i].some /\ results[i].val.pattern = tag})

RECURSIVE ReturnedBy(_, _)
\* The analyses of the first n requests that returned the tag.
ReturnedBy(n, tag) ==
    IF n = 0 THEN 0 ELSE TagCount(requests[n].results, tag) + ReturnedBy(n - 1, tag)

ReturnedTags ==
    UNION {{requests[r].results[i].val.pattern :
               i \in {j \in DOMAIN requests[r].results : requests[r].results[j].some}} :
           r \in DOMAIN requests}

\* C19: under every interleaving of analyze requests and metrics reads on
\* one analyzer, a request that works on the analyzer holds the write guard
\* alone, a metrics read holds the read guard while nobody writes, and once
\* every request is answered each counter is the number of analyses that
\* returned its pattern to a request: no update is lost or made twice.
C19_ConcurrentSafety ==
    /\ \A r \in DOMAIN requests :
           /\ requests[r].pc \in WriteSection =>
                  /\ lock.writer = r
                  /\ lock.readers = {}
                  /\ \A o \in DOMAIN requests :
                         o # r => requests[o].pc \notin (WriteSection \cup ReadSection)
           /\ requests[r].pc \in ReadSection => lock.writer = 0 /\ r \in lock.readers
    /\ (\A r \in DOMAIN requests : requests[r].pc = "done") =>
           /\ lock = [writer |-> 0, readers |-> {}]
           /\ \A tag \in DOMAIN pattern_stats \cup ReturnedTags :
                  CounterOf(pattern_stats, tag) = ReturnedBy(Len(requests), tag)
           /\ \A r \in DOMAIN requests :
                  /\ requests[r].body.route = "analyze_pda"
                  /\ requests[r].status = "Success"
                  => /\ Len(requests[r].results) = 1
                     /\ requests[r].counted = 1

\* Two analyze requests that were answered with the same pattern: its
\* counter is 2.
C19_Witness ==
    /\ Len(requests) >= 2
    /\ \A r \in {1, 2} :
           /\ requests[r].pc = "done"
           /\ requests[r].body.route = "analyze_pda"
           /\ requests[r].status = "Success"
           /\ requests[r].results[1].val.pattern = "StringSingleton"
    /\ CounterOf(pattern_stats, "StringSingleton") = 2

\* C20: a request that holds the lock of the analyzer is never at a call
\* that awaits the storage layer.
C20_ShortCriticalSections ==
    \A r \in DOMAIN requests :
        requests[r].pc \in {"store", "update_count"} =>
            lock.writer # r /\ r \notin lock.readers

(***************************************************************************)
(* Properties of generate_pattern_suggestions                              *)
(***************************************************************************)
\* The records of the program that have a k-th seed, by position in the list.
Holders(records, program_id, k) ==
    {n \in DOMAIN records :
        records[n].program_id = program_id /\ k <= Len(records[n].seeds)}

\* Those whose k-th seed has the given type tag.
TypedAt(records, program_id, k, type) ==
    {n \in Holders(records, program_id, k) : seed_type(records[n].seeds[k]) = type}

\* value is count / total * 100.
IsShare(value, count, total) ==
    value.den > 0 /\ value.num * total = count * 100 * value.den

\* C21: generate_pattern_suggestions gives one suggestion for each seed
\* position below the greatest seed count of the records of the program, in
\* order of position; it names a type tag no other tag is more frequent
\* than at that position, its frequency is the number of records with that
\* tag there, and its confidence is that number out of the records with a
\* seed at that position, times 100, uncapped.  Records of other programs do
\* not count, and without records of the program there is no suggestion.
C21_PerPositionSuggestions ==
    \A i \in Calls("generate_pattern_suggestions") :
        LET call == history[i] IN
        /\ \A k \in 1..(MaxPdas + 1) :
               (k \in DOMAIN call.result) <=> (Holders(call.pdas, call.program_id, k) # {})
        /\ \A k \in DOMAIN call.result :
               /\ call.result[k].seed_index = k - 1
               /\ call.result[k].frequency =
                      Cardinality(TypedAt(call.pdas, call.program_id, k,
                                          call.result[k].suggested_type))
               /\ \A type \in SeedTypes :
                      Cardinality(TypedAt(call.pdas, call.program_id, k, type))
                          <= call.result[k].frequency
               /\ IsShare(call.result[k].confidence, call.result[k].frequency,
                          Cardinality(Holders(call.pdas, call.program_id, k)))

\* A call over records of two programs whose second position holds two type
\* tags, the suggested one in two of three records: 66.67 and not 95.
C21_Witness ==
    \E i \in Calls("generate_pattern_suggestions") :
        /\ \E n \in DOMAIN history[i].pdas :
               history[i].pdas[n].program_id # history[i].program_id
        /\ Len(history[i].result) >= 2
        /\ history[i].result[2].frequency = 2
        /\ history[i].result[2].confidence = Fraction(200, 3)
        /\ history[i].result[1].confidence = Fraction(100, 1)

(***************************************************************************)
(* Properties of the search of analyze_pda                                 *)
(***************************************************************************)
\* The call being followed has returned a match.
SearchMatched == search.pc = "done" /\ search.result.ok /\ search.result.val.some

\* The candidate loop of the given family is running.
Scanning(family) == search.pc = "scan" /\ FamilyOrder[search.k] = family

\* C22: the wallet/program/mint pattern is returned, and a candidate of its
\* family derived, only under the associated-account program id; a
\* metadata, master-edition or edition pattern is returned, and a candidate
\* of that family derived, only under the metadata program id.
C22_FamilyGating ==
    /\ Scanning("associated_token_account") => search.program_id = ATA_PROGRAM_ID
    /\ Scanning("metaplex") => search.program_id = METAPLEX_PROGRAM_ID
    /\ SearchMatched =>
          /\ search.result.val.val.pattern = "AssociatedTokenAccount"
                 => search.program_id = ATA_PROGRAM_ID
          /\ search.result.val.val.pattern
                     \in {"MetaplexMetadata", "MetaplexMasterEdition", "MetaplexEdition"}
                 => search.program_id = METAPLEX_PROGRAM_ID
          /\ search.last[1].tag = "Pubkey" /\ Len(search.last) = 3
                 => search.program_id = ATA_PROGRAM_ID

\* Under the test program the singleton loop starts with no derivation made,
\* on a target that a wallet/program/mint seed list derives under it.
C22_Witness ==
    /\ Scanning("string_singleton")
    /\ search.total = 0
    /\ search.program_id = TEST_PROGRAM_ID
    /\ \E i \in 1..Len(CandidateTable[TEST_PROGRAM_ID]["associated_token_account"]) :
           search.address =
               DerivedTable[TEST_PROGRAM_ID]["associated_token_account"][i].val.address

\* The j-th seed list of the authority family as the order is stated: per
\* authority 19 lists, [authority], ["authority", authority], then the
\* nonces 0..10 and the bump seeds 250..255.
AuthorityOrder(j) ==
    LET authority == Base58Table[test_authorities[(j - 1) \div 19 + 1]]
        r == (j - 1) % 19
    IN  IF r = 0 THEN <<SeedPubkey(authority)>>
        ELSE IF r = 1 THEN <<SeedString("authority"), SeedPubkey(authority)>>
        ELSE IF r <= 12 THEN <<SeedPubkey(authority), SeedU64(r - 2)>>
        ELSE <<SeedPubkey(authority), SeedU8(250 + (r - 13))>>

\* The j-th seed list of the sequential family as the order is stated: per
\* prefix the indices 0..50, each as u64 and then as u32.
SequentialOrder(j) ==
    LET prefix == sequential_prefixes[(j - 1) \div 102 + 1]
        index  == ((j - 1) % 102) \div 2
    IN  IF (j - 1) % 2 = 0 THEN <<SeedString(prefix), SeedU64(index)>>
        ELSE <<SeedString(prefix), SeedU32(index)>>

\* The addresses the seed lists of the stated orders derive, per program id.
OrderDerived ==
    [p \in ProgramIds |->
        [authority  |-> [j \in 1..(19 * Len(test_authorities)) |->
                            try_find_program_address(seed_bytes_of(AuthorityOrder(j)), p)],
         sequential |-> [j \in 1..(102 * Len(sequential_prefixes)) |->
                            try_find_program_address(seed_bytes_of(SequentialOrder(j)), p)]]]

\* The seed list at position j of the stated order of a family.
StatedOrder(family, j) ==
    IF family = "authority" THEN AuthorityOrder(j) ELSE SequentialOrder(j)

\* C23: inside the authority family and the sequential family the
\* candidates are derived in the stated order; the family returns the first
\* seed list of that order that derives the target, and the candidate
\* derived last is the one returned.
C23_OrderInsideFamily ==
    \A family \in {"authority", "sequential"} :
        (FamilyOrder[search.k] = family /\ search.tried >= 1) =>
            /\ search.last = StatedOrder(family, search.tried)
            /\ \A j \in 1..(search.tried - 1) :
                   ~(/\ OrderDerived[search.program_id][family][j].some
                     /\ OrderDerived[search.program_id][family][j].val.address
                            = search.address)
            /\ SearchMatched =>
                   /\ search.result.val.val.pda_info.seeds = search.last
                   /\ OrderDerived[search.program_id][family][search.tried].val.address
                          = search.address
            /\ (search.pc = "scan") =>
                   ~(/\ OrderDerived[search.program_id][family][search.tried].some
                     /\ OrderDerived[search.program_id][family][search.tried].val.address
                            = search.address)

\* The sequential family returns a u32 index of a later prefix: every list
\* of the first prefix and the u64 list of that index came before it.
C23_Witness ==
    /\ SearchMatched
    /\ FamilyOrder[search.k] = "sequential"
    /\ search.tried > 102
    /\ search.last[2].tag = "U32"

\* The stated range of the confidence of a family, in hundredths.
ConfidenceRange(family) ==
    CASE family = "associated_token_account" -> [lo |-> 98, hi |-> 98]
      [] family = "metaplex"                 -> [lo |-> 90, hi |-> 95]
      [] family = "string_singleton"         -> [lo |-> 82, hi |-> 92]
      [] family = "authority"                -> [lo |-> 82, hi |-> 87]
      [] family = "sequential"               -> [lo |-> 78, hi |-> 80]
      [] family = "complex"                  -> [lo |-> 75, hi |-> 75]

\* The type tags of a seed list.
Shape(seeds) == [i \in 1..Len(seeds) |-> seeds[i].tag]

\* The confidences a family gives to a seed list of a shape.
ShapeConfidences(family, shape) ==
    CASE family = "associated_token_account" -> {98}
      [] family = "metaplex" ->
           IF Len(shape) = 3 THEN {95} ELSE IF Len(shape) = 4 THEN {93} ELSE {90}
      [] family = "string_singleton" -> {92, 88, 85}
      [] family = "authority" ->
           IF shape = <<"Pubkey">> THEN {87}
           ELSE IF shape = <<"String", "Pubkey">> THEN {85}
           ELSE IF shape = <<"Pubkey", "U64">> THEN {83}
           ELSE {82}
      [] family = "sequential" -> IF shape[2] = "U64" THEN {80} ELSE {78}
      [] family = "complex" -> {75}

\* C24: the confidence of a result lies in [0, 1] and in the stated range of
\* the family that matched, and is the value that family gives to the shape
\* of the reported seed list; for every family later in the priority order
\* whose range lies wholly below that of the matching family, the
\* confidence is above that range.
C24_FixedConfidencePerFamily ==
    SearchMatched =>
        /\ search.result.val.val.confidence \in 0..100
        /\ search.result.val.val.confidence >= ConfidenceRange(FamilyOrder[search.k]).lo
        /\ search.result.val.val.confidence <= ConfidenceRange(FamilyOrder[search.k]).hi
        /\ search.result.val.val.confidence
               \in ShapeConfidences(FamilyOrder[search.k],
                                    Shape(search.result.val.val.pda_info.seeds))
        /\ \A g \in (search.k + 1)..Len(FamilyOrder) :
               ConfidenceRange(FamilyOrder[g]).hi < ConfidenceRange(FamilyOrder[search.k]).lo
                   => search.result.val.val.confidence > ConfidenceRange(FamilyOrder[g]).hi

\* A singleton match at 0.85, below the top of the authority range after it.
C24_Witness ==
    /\ SearchMatched
    /\ FamilyOrder[search.k] = "string_singleton"
    /\ search.result.val.val.confidence = 85
    /\ search.result.val.val.confidence < ConfidenceRange("authority").hi

(***************************************************************************)
(* Properties of the grouping of detect_patterns                           *)
(***************************************************************************)
\* The type tags joined by colons, built from the left.
ColonJoined(tags) ==
    LET joined[i \in 1..Len(tags)] ==
            IF i = 1 THEN tags[1] ELSE joined[i - 1] \o ":" \o tags[i]
    IN  joined[Len(tags)]

\* The signature of a seed list as stated: "empty" without seeds.
StatedSignature(seeds) ==
    IF Len(seeds) = 0 THEN "empty"
    ELSE ColonJoined([i \in 1..Len(seeds) |-> seed_type(seeds[i])])

\* The positions of the records of the program with the given signature.
SignatureGroup(records, program_id, pattern_sig) ==
    {i \in DOMAIN records :
        /\ records[i].program_id = program_id
        /\ StatedSignature(records[i].seeds) = pattern_sig}

\* The j-th position of a set of positions, in list order.
NthOf(positions, j) ==
    CHOOSE i \in positions : Cardinality({x \in positions : x < i}) = j - 1

\* C25: every pattern of detect_patterns is of the given program and of a
\* group of its records that share the stated signature; its frequency is
\* the size of the group, its seed template has per seed position an entry
\* named seed_{index} with the observed type tag and variable = true, and
\* its examples are the addresses of the first 5 records of the group, or of
\* all if fewer, in input order.  The signature of a seed list is its type
\* tags joined by colons, and "empty" for no seeds.
C25_GroupingBySignature ==
    /\ \A c \in Calls("create_pattern_signature") :
           history[c].result = StatedSignature(history[c].seeds)
    /\ \A c \in Calls("detect_patterns") :
           \A k \in DOMAIN history[c].result.val :
               LET h == history[c]
                   pattern == h.result.val[k]
                   group == SignatureGroup(h.pdas, h.program_id, pattern.pattern_signature)
               IN  /\ group # {}
                   /\ pattern.program_id = h.program_id
                   /\ pattern.frequency = Cardinality(group)
                   /\ Len(pattern.seed_template) = Len(h.pdas[NthOf(group, 1)].seeds)
                   /\ \A j \in DOMAIN pattern.seed_template :
                          /\ pattern.seed_template[j].name = "seed_" \o ToString(j - 1)
                          /\ pattern.seed_template[j].seed_type =
                                 seed_type(h.pdas[NthOf(group, 1)].seeds[j])
                          /\ pattern.seed_template[j].is_variable
                   /\ Len(pattern.examples) =
                          (IF Cardinality(group) < 5 THEN Cardinality(group) ELSE 5)
                   /\ \A j \in DOMAIN pattern.examples :
                          pattern.examples[j] = h.pdas[NthOf(group, j)].address

\* A group of more than 5 records: the pattern counts them all and keeps the
\* first 5 addresses.
C25_Witness ==
    \E c \in Calls("detect_patterns") :
        \E k \in DOMAIN history[c].result.val :
            /\ history[c].result.val[k].frequency > 5
            /\ Len(history[c].result.val[k].examples) = 5
            /\ history[c].result.val[k].pattern_signature = "string"

\* The derivations a family makes at most, as stated: 4 wallets x 4 mints,
\* 3 mints x 12 lists, 26 strings, 4 authorities x 19 lists, 7 prefixes x 51
\* indices x 2 widths, 5 strings x 3 keys x 5 strings x 3 numbers.
FamilyBound(family) ==
    CASE family = "associated_token_account" -> 16
      [] family = "metaplex"                 -> 36
      [] family = "string_singleton"         -> 26
      [] family = "authority"                -> 76
      [] family = "sequential"               -> 714
      [] family = "complex"                  -> 225

\* The bound of a whole call: the sum over the six families.
SearchBound == 16 + 36 + 26 + 76 + 714 + 225

\* The derivations of the families before the k-th, each scanned once and
\* to its end.
ScannedBefore(program_id, k) ==
    LET sum[j \in 0..(k - 1)] ==
            IF j = 0 THEN 0 ELSE sum[j - 1] + FullCount(FamilyOrder[j], program_id)
    IN  sum[k - 1]

\* The bounds of a call at every point of its search.
SearchBounded ==
    /\ search.tried <= FamilyBound(FamilyOrder[search.k])
    /\ search.total <= SearchBound
    /\ search.total = ScannedBefore(search.program_id, search.k) + search.tried
    /\ (FamilyOrder[search.k] = "complex" /\ search.tried >= 1)
           => search.last[1].string # search.last[3].string

\* C26: a call of analyze_pda makes at most a fixed number of derivations,
\* the same for every target: at most the stated number in each family, 225
\* in the complex family where no candidate has its two strings equal, and a
\* few thousand in all; no candidate is derived twice; and the call returns.
C26_BoundedSearch ==
    /\ []SearchBounded
    /\ (search.pc \in {"enter", "scan"}) ~> (search.pc = "done")

\* A call that exhausts every family it enters and returns no match.
C26_Witness ==
    /\ search.pc = "done"
    /\ search.result = Ok(None)
    /\ search.total > 1000
    /\ search.total = ScannedBefore(search.program_id, Len(FamilyOrder)) + search.tried

(***************************************************************************)
(* Properties of batch_analyze and of the frame of the analyzer            *)
(***************************************************************************)
\* The positions of a result list that hold a match of the given tag.
MatchesOf(results, tag) ==
    {i \in DOMAIN results : results[i].some /\ results[i].val.pattern = tag}

\* C27: a batch_analyze that succeeds returns a list of the length of its
\* input whose i-th element is what analyze_pda returns for the i-th pair,
\* also what an earlier single call on that pair returned, and it leaves
\* every counter at its value before plus the matches of that tag in the
\* list, as the same analyze_pda calls made one by one do.
C27_BatchAnalysis ==
    \A c \in Calls("batch_analyze") :
        history[c].result.ok =>
            /\ Len(history[c].result.val) = Len(history[c].addresses)
            /\ \A i \in DOMAIN history[c].addresses :
                   /\ Ok(history[c].result.val[i])
                          = AnalyzeTable[history[c].addresses[i]].result
                   /\ \A a \in Calls("analyze_pda") :
                          (/\ history[a].address = history[c].addresses[i][1]
                           /\ history[a].program_id = history[c].addresses[i][2])
                              => history[a].result = Ok(history[c].result.val[i])
            /\ \A tag \in DOMAIN history[c].stats_after \cup DOMAIN history[c].stats_before
                          \cup {"Sequential", "StringSingleton"} :
                   CounterOf(history[c].stats_after, tag) =
                       CounterOf(history[c].stats_before, tag)
                           + Cardinality(MatchesOf(history[c].result.val, tag))

\* A batch of three pairs after a single call that matched: two matches of
\* one tag around a pair without a match, the counter of the tag at 3.
C27_Witness ==
    \E c \in Calls("batch_analyze") :
        /\ c = 2
        /\ Len(history[c].result.val) = 3
        /\ history[c].result.val[1].some
        /\ ~history[c].result.val[2].some
        /\ history[c].result.val[3].some
        /\ history[c].result.val[3].val.pattern = history[c].result.val[1].val.pattern
        /\ history[c].result.val[3] # history[c].result.val[1]
        /\ CounterOf(history[c].stats_after, history[c].result.val[1].val.pattern) = 3

(***************************************************************************)
(* Properties of the scores of match_pda                                   *)
(***************************************************************************)
\* An f64 that is a number from 0 to 100.
InScoreRange(value) ==
    value.den > 0 /\ 0 <= value.num /\ value.num <= 100 * value.den

\* C28: every entry match_pda returns has a score that is a number from 0
\* to 100, also for a record without seeds matched against a template
\* without seed positions.
C28_ScoreRange ==
    \A c \in Calls("match_pda") :
        \A k \in DOMAIN history[c].result :
            InScoreRange(history[c].result[k].match_score)

\* The part of C28 that holds: the entries of records with a seed.
C28_ScoreRangeOfNonEmptyLists ==
    \A c \in Calls("match_pda") :
        history[c].pda.seeds # <<>> =>
            \A k \in DOMAIN history[c].result :
                InScoreRange(history[c].result[k].match_score)

\* The step is a call of the given operation.
Appended(op) ==
    /\ Len(history') = Len(history) + 1
    /\ history'[Len(history')].op = op

\* C29: analyze_pda and batch_analyze leave the derivation cache and its
\* statistics as they were; an analyze_pda that returns None leaves the
\* cache, the counters and the known-program table as they were; the cache
\* changes only in derive_pda and clear_cache; clear_cache leaves the
\* counters as they were and the cache empty.
C29_FrameOfAnalysis ==
    [][/\ (Appended("analyze_pda") \/ Appended("batch_analyze")) =>
              /\ cache' = cache
              /\ cache_stats(cache') = cache_stats(cache)
              /\ known_programs' = known_programs
       /\ (Appended("analyze_pda") /\ history'[Len(history')].result = Ok(None)) =>
              pattern_stats' = pattern_stats
       /\ cache' # cache => (Appended("derive_pda") \/ Appended("clear_cache"))
       /\ Appended("clear_cache") =>
              /\ pattern_stats' = pattern_stats
              /\ cache' = << >>
              /\ cache_stats(cache') = [hits |-> 0, total |-> 0]
              /\ known_programs' = known_programs]_vars

\* A derivation was cached, a batch with a match ran over the cache, and
\* clear_cache emptied the cache and kept the counters.
C29_Witness ==
    /\ Len(history) = 3
    /\ history[1].op = "derive_pda"
    /\ history[1].stats_after.total = 1
    /\ history[2].op = "batch_analyze"
    /\ history[2].stats_after # << >>
    /\ history[3].op = "clear_cache"
    /\ pattern_stats = history[2].stats_after
    /\ cache = << >>

(***************************************************************************)
(* Properties of the runs of the detector                                  *)
(***************************************************************************)
\* The suggested types of a suggestion list, by position.
SuggestedTypes(suggestions) ==
    [k \in DOMAIN suggestions |-> suggestions[k].suggested_type]

\* C30: the patterns of detect_patterns, in their order, and the suggested
\* types of generate_pattern_suggestions are those of every other run on
\* the same program id and record list, whatever order the maps of that run
\* yield their keys in.
C30_DeterministicRanking ==
    /\ \A c \in Calls("detect_patterns") :
           \A order \in IterationOrders(Signatures(history[c].program_id, history[c].pdas)) :
               detect_patterns(history[c].program_id, history[c].pdas, order)
                   = history[c].result.val
    /\ \A c \in Calls("generate_pattern_suggestions") :
           \A order \in IterationOrders(SeedTypesOf(history[c].program_id, history[c].pdas)) :
               SuggestedTypes(generate_pattern_suggestions(
                   history[c].program_id, history[c].pdas, SeedTypes,
                   [k \in UNION {DOMAIN history[c].pdas[n].seeds :
                                    n \in DOMAIN history[c].pdas} |-> order]))
                   = SuggestedTypes(history[c].result)

\* The part of C30 that holds: without two signatures of equal frequency
\* every run of detect_patterns gives the same list.
C30_DeterministicWithoutTies ==
    \A c \in Calls("detect_patterns") :
        (\A i, j \in DOMAIN history[c].result.val :
            i # j => history[c].result.val[i].frequency # history[c].result.val[j].frequency)
        => \A order \in IterationOrders(Signatures(history[c].program_id, history[c].pdas)) :
               detect_patterns(history[c].program_id, history[c].pdas, order)
                   = history[c].result.val
====
